---- MODULE Spec2Model ----
(***************************************************************************)
(* Gas Tank Stamping Text Image Generator: the batch orchestrator of       *)
(* scripts/main.py and the dictionary loader of scripts/utils.py.          *)
(*                                                                         *)
(* Strings are sequences of one-character strings, so that formatting,     *)
(* stripping and path joining are computed and not assumed.                *)
(*                                                                         *)
(* main() is modelled statement by statement: pc names the statement that  *)
(* runs next.  A KeyboardInterrupt is raised by the interpreter between    *)
(* two statements of the loop body; an exception raised by a statement     *)
(* leaves that statement without effect.  The host 3D application (bpy)    *)
(* is outside the repository: its render operator either writes the image  *)
(* and returns FINISHED, returns CANCELLED without writing, or raises.     *)
(*                                                                         *)
(* The components main() calls are also studied by themselves, each under  *)
(* its own specification: the dictionary loader on any path (SpecLoad),    *)
(* CylinderGenerator.create_cylinder (SpecCylinder), TextEmbosser          *)
(* (SpecEmboss), the random stream shared by all draws of a run, on two    *)
(* runs side by side (SpecSeed), calculate_progress_percentage             *)
(* (SpecProgress), LightingCameraController (SpecLight) and the handlers   *)
(* of LightingGUI (SpecGui).                                               *)
(***************************************************************************)
EXTENDS Integers, Sequences, FiniteSets, TLC

VARIABLES
    args_count,        \* args.count
    args_output,       \* args.output
    dict_file,         \* the file at args.dict: [exists, content]
    pc,                \* the statement of main() that runs next
    text_list,         \* main.text_list
    dirs_created,      \* <output>/images and <output>/labels exist
    scene_touched,     \* some bpy scene operation or setting was performed
    scene,             \* the objects of the bpy scene
    render_filepath,   \* scene.render.filepath
    i,                 \* the loop variable of "for i in range(args.count)"
    text_content,      \* loop locals
    variant_id,
    image_filename,
    label_filename,
    image_path,
    label_path,
    generated_count,
    fs,                \* files written by this run: set of [path, kind, content, it]
    iters,             \* history: one record per iteration started
    exc_at,            \* history: where an exception or interrupt was raised
    log,               \* logger calls that matter: set of [level, line, value]
    cyl,               \* a call of CylinderGenerator.create_cylinder and its result
    emb,               \* a TextEmbosser and its call of apply_debossed_text
    runs,              \* two runs of main(), each with its own random generator
    lit,               \* a LightingCameraController and the scene it works on
    prog,              \* a call of utils.calculate_progress_percentage
    gui                \* a LightingGUI and its calls of generate_test

\* the state of the components when they are studied by themselves
compvars == <<cyl, emb, runs, lit, prog, gui>>

vars == <<args_count, args_output, dict_file, pc, text_list, dirs_created,
          scene_touched, scene, render_filepath, i, text_content, variant_id,
          image_filename, label_filename, image_path, label_path,
          generated_count, fs, iters, exc_at, log, cyl, emb, runs, lit,
          prog, gui>>

----------------------------------------------------------------------------
(* Bounds of the model *)

MaxCount == 3
MaxFileLen == 4

----------------------------------------------------------------------------
(* Strings *)

NoStr == <<>>

\* str.strip() with no argument strips whitespace
Whitespace == {" ", "\n", "\t"}

RECURSIVE LStrip(_)
LStrip(s) ==
    IF s = <<>> THEN s
    ELSE IF Head(s) \in Whitespace THEN LStrip(Tail(s)) ELSE s

RECURSIVE RStrip(_)
RStrip(s) ==
    IF s = <<>> THEN s
    ELSE IF s[Len(s)] \in Whitespace THEN RStrip(SubSeq(s, 1, Len(s) - 1)) ELSE s

StripOneSide(s) == LStrip(s)

Strip(s) == RStrip(LStrip(s))

\* "for line in f": each line runs up to and including its "\n"; the last
\* line has none when the file does not end with one
\* (the files here hold no "\r", which text mode would turn into "\n")
RECURSIVE ReadLines(_)
ReadLines(c) ==
    IF c = <<>> THEN <<>>
    ELSE LET nl == {k \in 1..Len(c) : c[k] = "\n"}
         IN  IF nl = {} THEN <<c>>
             ELSE LET n == CHOOSE k \in nl : \A m \in nl : k <= m
                  IN  <<SubSeq(c, 1, n)>> \o ReadLines(SubSeq(c, n + 1, Len(c)))

\* "if text:" of load_text_dictionary
LineIsKept(text) == text # <<>>

\* the loop of load_text_dictionary over the remaining lines
RECURSIVE LoadLoop(_, _)
LoadLoop(lines, acc) ==
    IF lines = <<>> THEN acc
    ELSE LET text == Strip(Head(lines))
         IN  LoadLoop(Tail(lines),
                      IF LineIsKept(text) THEN Append(acc, text) ELSE acc)

load_text_dictionary(content) == LoadLoop(ReadLines(content), <<>>)

----------------------------------------------------------------------------
(* Formatting and paths *)

PadWidth == 3

Digits == <<"0", "1", "2", "3", "4", "5", "6", "7", "8", "9">>

RECURSIVE DecStr(_)
DecStr(n) ==
    IF n < 10 THEN <<Digits[n + 1]>>
    ELSE DecStr(n \div 10) \o <<Digits[(n % 10) + 1]>>

\* f"{n:03d}" for n >= 0
Format03d(n) ==
    LET s == DecStr(n)
    IN  IF Len(s) >= PadWidth THEN s
        ELSE [k \in 1..(PadWidth - Len(s)) |-> "0"] \o s

VariantIdConstant(k) == Format03d(1)

\* variant_id = f"{i+1:03d}", k being the loop variable i
VariantId(k) == Format03d(k + 1)

\* posixpath.join of two components
Join2(a, b) ==
    IF b # <<>> /\ Head(b) = "/" THEN b
    ELSE IF a = <<>> \/ a[Len(a)] = "/" THEN a \o b
    ELSE a \o <<"/">> \o b

PathJoin(a, b, c) == Join2(Join2(a, b), c)

StrImages == <<"i", "m", "a", "g", "e", "s">>
StrLabels == <<"l", "a", "b", "e", "l", "s">>
ExtPng == <<".", "p", "n", "g">>
ExtTxt == <<".", "t", "x", "t">>
Underscore == <<"_">>

\* image_filename = f"{text_content}_{variant_id}.png"
ImageFilename(text, vid) == text \o Underscore \o vid \o ExtPng

\* label_filename = f"{text_content}_{variant_id}.txt"
LabelFilename(text, vid) == text \o Underscore \o vid \o ExtTxt

----------------------------------------------------------------------------
(* Inputs *)

LabelA == <<"A">>
LabelA2 == <<"A", "_", "0", "0", "2">>
LabelSlash == <<"/", "B">>

\* dictionary files of the batch runs; the loader turns them into
\* <<A>>, <<A, A_002>>, <<"/B", A>> and <<>>
FileOne == <<"A", "\n">>
FileTwo == <<" ", "A", " ", "\n", "\n">> \o LabelA2 \o <<"\n">>
FileSlash == LabelSlash \o <<"\n", "A">>
FileBlank == <<" ", "\n", "\n">>

NoFile == [exists |-> FALSE, content |-> <<>>]

BatchDictFiles ==
    {NoFile} \cup
    {[exists |-> TRUE, content |-> c] : c \in {FileOne, FileTwo, FileSlash, FileBlank}}

Counts == {-1} \cup (0..MaxCount)

OutputDirs == {<<"o">>, <<"o", "/">>}

DictAlphabet == {"A", "B", " ", "\t", "\n"}

\* a byte that is not valid UTF-8 (such as 0xFF)
BadByte == "0xFF"

BoundedSeq(S, n) == UNION {[1..k -> S] : k \in 0..n}

----------------------------------------------------------------------------
(* The scene and the files *)

LightKinds == {"key", "fill", "rim", "ambient"}

Obj(kind, it, text, hide) ==
    [kind |-> kind, it |-> it, text |-> text, hide_viewport |-> hide]

\* open(path, 'w') and the renderer's write_still: a file at that path is replaced
WriteFile(files, rec) == {f \in files : f.path # rec.path} \cup {rec}

FilesOfKind(files, kind) == {f \in files : f.kind = kind}

NoExc == [kind |-> "none", pc |-> "none", i |-> -1, fs |-> {}, gc |-> 0]

\* statements inside the try block of main()
TryPcs == {"for", "choice", "clear", "cylinder", "deboss", "randomize", "paths",
           "render", "open_label", "write_label", "incr"}

\* statements of the loop body that call the host application or the file system
RaisingPcs == {"clear", "cylinder", "deboss", "randomize", "render",
               "open_label", "write_label"}

Terminal == {"done", "raised", "exit1"}

LastIter == iters[Len(iters)]

SetLast(field, value) == [iters EXCEPT ![Len(iters)][field] = value]

----------------------------------------------------------------------------
(* Initial states *)

InitMain ==
    /\ text_list = <<>>
    /\ dirs_created = FALSE
    /\ scene_touched = FALSE
    /\ scene = {}
    /\ render_filepath = NoStr
    /\ i = -1
    /\ text_content = NoStr
    /\ variant_id = NoStr
    /\ image_filename = NoStr
    /\ label_filename = NoStr
    /\ image_path = NoStr
    /\ label_path = NoStr
    /\ generated_count = 0
    /\ fs = {}
    /\ iters = <<>>
    /\ exc_at = NoExc
    /\ log = {}

\* the components before they are called
\* an optional argument: None, or Some(v) for the value v
None == <<>>

Some(v) == <<v>>

ValueOf(opt) == opt[1]

NoCall == [pc |-> "none"]

ComponentsIdle ==
    /\ cyl = NoCall
    /\ emb = NoCall
    /\ runs = <<>>
    /\ lit = NoCall
    /\ prog = NoCall
    /\ gui = NoCall

InitCommon ==
    /\ InitMain
    /\ ComponentsIdle

Init ==
    /\ args_count \in Counts
    /\ args_output \in OutputDirs
    /\ dict_file \in BatchDictFiles
    /\ pc = "start"
    /\ InitCommon

----------------------------------------------------------------------------
(* main(): the statements before the loop *)

ValidateInputNoExit ==
    /\ pc = "start"
    /\ pc' = "load"
    /\ log' = IF dict_file.exists THEN log
              ELSE log \cup {[level |-> "error", line |-> 128, value |-> 0]}
    /\ UNCHANGED <<args_count, args_output, dict_file, text_list, dirs_created,
                   scene_touched, scene, render_filepath, i, text_content,
                   variant_id, image_filename, label_filename, image_path,
                   label_path, generated_count, fs, iters, exc_at>>
    /\ UNCHANGED compvars

\* lines 112-129: parse, logging, seed, "if not os.path.exists(args.dict)"
ValidateInput ==
    /\ pc = "start"
    /\ IF dict_file.exists
       THEN /\ pc' = "load"
            /\ log' = log
       ELSE /\ pc' = "exit1"
            /\ log' = log \cup {[level |-> "error", line |-> 128, value |-> 0]}
    /\ UNCHANGED <<args_count, args_output, dict_file, text_list, dirs_created,
                   scene_touched, scene, render_filepath, i, text_content,
                   variant_id, image_filename, label_filename, image_path,
                   label_path, generated_count, fs, iters, exc_at>>
    /\ UNCHANGED compvars

\* utils.py line 44: the file is decoded with encoding='utf-8' and strict
\* errors: a byte that is no UTF-8 makes the read raise UnicodeDecodeError
IsValidUtf8(content) == \A p \in 1..Len(content) : content[p] # BadByte

\* utils.py line 50: FileNotFoundError(msg) is built from one argument
NewFileNotFoundError(args) == "FileNotFoundError"

\* utils.py line 52: UnicodeDecodeError(msg).  The constructor of
\* UnicodeDecodeError takes exactly the five arguments (encoding, object,
\* start, end, reason); called with another number it raises TypeError
NewUnicodeDecodeError(args) ==
    IF Len(args) = Len(<<"encoding", "object", "start", "end", "reason">>)
    THEN "UnicodeDecodeError"
    ELSE "TypeError"

\* utils.py lines 43-54: what the call load_text_dictionary(filepath) raises
\* ("none": it returns the list)
LoadRaises(file) ==
    IF ~file.exists THEN NewFileNotFoundError(<<"msg">>)
    ELSE IF ~IsValidUtf8(file.content) THEN NewUnicodeDecodeError(<<"msg">>)
    ELSE "none"

\* lines 132-133: text_list = load_text_dictionary(args.dict); an exception
\* of the loader is raised outside the try block of main()
LoadDictionary ==
    /\ pc = "load"
    /\ IF LoadRaises(dict_file) = "none"
       THEN /\ text_list' = load_text_dictionary(dict_file.content)
            /\ pc' = "mkdirs"
            /\ exc_at' = exc_at
       ELSE /\ text_list' = text_list
            /\ pc' = "raised"
            /\ exc_at' = [kind |-> LoadRaises(dict_file), pc |-> pc, i |-> i,
                          fs |-> fs, gc |-> generated_count]
    /\ UNCHANGED <<args_count, args_output, dict_file, dirs_created,
                   scene_touched, scene, render_filepath, i, text_content,
                   variant_id, image_filename, label_filename, image_path,
                   label_path, generated_count, fs, iters, log>>
    /\ UNCHANGED compvars

\* line 136: create_output_dirs(args.output)
CreateOutputDirs ==
    /\ pc = "mkdirs"
    /\ dirs_created' = TRUE
    /\ pc' = "setup"
    /\ UNCHANGED <<args_count, args_output, dict_file, text_list,
                   scene_touched, scene, render_filepath, i, text_content,
                   variant_id, image_filename, label_filename, image_path,
                   label_path, generated_count, fs, iters, exc_at, log>>
    /\ UNCHANGED compvars

TempPng == <<"t", "e", "m", "p">> \o ExtPng

\* lines 139-153: generators, render settings, generated_count = 0
SetupRender ==
    /\ pc = "setup"
    /\ scene_touched' = TRUE
    /\ render_filepath' = PathJoin(args_output, StrImages, TempPng)
    /\ generated_count' = 0
    /\ pc' = "for"
    /\ UNCHANGED <<args_count, args_output, dict_file, text_list, dirs_created,
                   scene, i, text_content, variant_id, image_filename,
                   label_filename, image_path, label_path, fs, iters, exc_at, log>>
    /\ UNCHANGED compvars

----------------------------------------------------------------------------
(* main(): the batch loop, lines 156-193 *)

LoopContinuesInclusive(k, n) == k + 1 <= n

\* range(n) has a value after k
LoopContinues(k, n) == k + 1 < n

\* line 156: for i in range(args.count)
ForNext ==
    /\ pc = "for"
    /\ IF LoopContinues(i, args_count)
       THEN /\ i' = i + 1
            /\ pc' = "choice"
       ELSE /\ i' = i
            /\ pc' = "report"
    /\ UNCHANGED <<args_count, args_output, dict_file, text_list, dirs_created,
                   scene_touched, scene, render_filepath, text_content,
                   variant_id, image_filename, label_filename, image_path,
                   label_path, generated_count, fs, iters, exc_at, log>>
    /\ UNCHANGED compvars

NewIter(text, vid) ==
    [label |-> text, variant_id |-> vid, debossed |-> NoStr,
     image_filename |-> NoStr,
     label_filename |-> NoStr, image_path |-> NoStr, label_path |-> NoStr,
     render |-> "none", label_written |-> FALSE, counted |-> FALSE]

\* lines 158-161: text_content = random.choice(text_list); variant_id
Choice ==
    /\ pc = "choice"
    /\ \E idx \in 1..Len(text_list) :
          /\ text_content' = text_list[idx]
          /\ iters' = Append(iters, NewIter(text_list[idx], VariantId(i)))
    /\ variant_id' = VariantId(i)
    /\ pc' = "clear"
    /\ UNCHANGED <<args_count, args_output, dict_file, text_list, dirs_created,
                   scene_touched, scene, render_filepath, i, image_filename,
                   label_filename, image_path, label_path, generated_count,
                   fs, exc_at, log>>
    /\ UNCHANGED compvars

\* select_all(action='SELECT') selects the objects visible in the viewport
Selected(objs) == {o \in objs : ~o.hide_viewport}

\* lines 164-165: select_all, delete
ClearScene ==
    /\ pc = "clear"
    /\ scene' = scene \ Selected(scene)
    /\ scene_touched' = TRUE
    /\ pc' = "cylinder"
    /\ UNCHANGED <<args_count, args_output, dict_file, text_list, dirs_created,
                   render_filepath, i, text_content, variant_id, image_filename,
                   label_filename, image_path, label_path, generated_count,
                   fs, iters, exc_at, log>>
    /\ UNCHANGED compvars

\* line 168: cylinder = cylinder_gen.create_cylinder()
CreateCylinder ==
    /\ pc = "cylinder"
    /\ scene' = scene \cup {Obj("cylinder", i + 1, NoStr, FALSE)}
    /\ pc' = "deboss"
    /\ UNCHANGED <<args_count, args_output, dict_file, text_list, dirs_created,
                   scene_touched, render_filepath, i, text_content, variant_id,
                   image_filename, label_filename, image_path, label_path,
                   generated_count, fs, iters, exc_at, log>>
    /\ UNCHANGED compvars

\* the text is carved into the cylinder of the iteration
Carved(objs, it, text) ==
    {IF o.kind = "cylinder" /\ o.it = it THEN [o EXCEPT !.text = text] ELSE o :
        o \in objs}

ApplyDebossedTextKeepingMesh(objs, it, text) ==
    Carved(objs, it, text) \cup {Obj("text_mesh", it, text, TRUE)}

\* TextEmbosser.apply_debossed_text(cylinder, text), text_embosser.py lines
\* 106-123.  _convert_text_to_mesh makes text_obj the active object, converts
\* it (bpy.ops.object.convert without keep_original converts the object in
\* place) and takes the active object as text_mesh: text_mesh is text_obj.
\* The object is hidden at lines 279-280 and removed at line 121 under its
\* name text_obj, so the call leaves no text object and no text mesh.
ApplyDebossedTextTo(objs, it, text) ==
    LET text_mesh == Obj("text_mesh", it, text, TRUE)
    IN  (Carved(objs, it, text) \cup {text_mesh}) \ {text_mesh}

\* line 171: text_embosser.apply_debossed_text(cylinder, text_content)
ApplyDebossedText ==
    /\ pc = "deboss"
    /\ scene' = ApplyDebossedTextTo(scene, i + 1, text_content)
    /\ iters' = SetLast("debossed", text_content)
    /\ pc' = "randomize"
    /\ UNCHANGED <<args_count, args_output, dict_file, text_list, dirs_created,
                   scene_touched, render_filepath, i, text_content, variant_id,
                   image_filename, label_filename, image_path, label_path,
                   generated_count, fs, exc_at, log>>
    /\ UNCHANGED compvars

\* LightingCameraController.randomize_scene: setup_camera, setup_lighting
RandomizeSceneOf(objs, it) ==
    {o \in objs : o.kind \notin LightKinds \cup {"camera"}}
    \cup {Obj(k, it, NoStr, FALSE) : k \in LightKinds \cup {"camera"}}

\* line 174: lighting_camera.randomize_scene()
RandomizeScene ==
    /\ pc = "randomize"
    /\ scene' = RandomizeSceneOf(scene, i + 1)
    /\ pc' = "paths"
    /\ UNCHANGED <<args_count, args_output, dict_file, text_list, dirs_created,
                   scene_touched, render_filepath, i, text_content, variant_id,
                   image_filename, label_filename, image_path, label_path,
                   generated_count, fs, iters, exc_at, log>>
    /\ UNCHANGED compvars

\* lines 177-183: the file names, the paths, scene.render.filepath
BuildPaths ==
    /\ pc = "paths"
    /\ image_filename' = ImageFilename(text_content, variant_id)
    /\ label_filename' = LabelFilename(text_content, variant_id)
    /\ image_path' = PathJoin(args_output, StrImages, image_filename')
    /\ label_path' = PathJoin(args_output, StrLabels, label_filename')
    /\ render_filepath' = image_path'
    /\ iters' = [iters EXCEPT ![Len(iters)] =
                    [@ EXCEPT !.image_filename = image_filename',
                              !.label_filename = label_filename',
                              !.image_path = image_path',
                              !.label_path = label_path']]
    /\ pc' = "render"
    /\ UNCHANGED <<args_count, args_output, dict_file, text_list, dirs_created,
                   scene_touched, scene, i, text_content, variant_id,
                   generated_count, fs, exc_at, log>>
    /\ UNCHANGED compvars

\* what the renderer draws: the text carved into the cylinder of the scene
RenderedText(objs) ==
    LET cyls == {o \in objs : o.kind = "cylinder"}
    IN  IF cyls = {} THEN NoStr ELSE (CHOOSE o \in cyls : TRUE).text

\* the statuses bpy.ops.render.render returns when it does not raise
RenderStatuses == {"FINISHED", "CANCELLED"}

\* line 184: bpy.ops.render.render(write_still=True); the returned status is dropped
Render ==
    /\ pc = "render"
    /\ \E status \in RenderStatuses :
          /\ fs' = IF status = "FINISHED"
                   THEN WriteFile(fs, [path |-> render_filepath, kind |-> "image",
                                       content |-> RenderedText(scene), it |-> i + 1])
                   ELSE fs
          /\ iters' = SetLast("render", status)
    /\ pc' = "open_label"
    /\ UNCHANGED <<args_count, args_output, dict_file, text_list, dirs_created,
                   scene_touched, scene, render_filepath, i, text_content,
                   variant_id, image_filename, label_filename, image_path,
                   label_path, generated_count, exc_at, log>>
    /\ UNCHANGED compvars

\* line 187: open(label_path, 'w', encoding='utf-8') creates or truncates the file
OpenLabel ==
    /\ pc = "open_label"
    /\ fs' = WriteFile(fs, [path |-> label_path, kind |-> "label",
                            content |-> NoStr, it |-> i + 1])
    /\ pc' = "write_label"
    /\ UNCHANGED <<args_count, args_output, dict_file, text_list, dirs_created,
                   scene_touched, scene, render_filepath, i, text_content,
                   variant_id, image_filename, label_filename, image_path,
                   label_path, generated_count, iters, exc_at, log>>
    /\ UNCHANGED compvars

LabelContentWithNewline(text) == text \o <<"\n">>

\* what f.write(text_content) puts into the label file
LabelContent(text) == text

\* line 188 and the end of the with block: f.write(text_content), close
WriteLabel ==
    /\ pc = "write_label"
    /\ fs' = WriteFile(fs, [path |-> label_path, kind |-> "label",
                            content |-> LabelContent(text_content), it |-> i + 1])
    /\ iters' = SetLast("label_written", TRUE)
    /\ pc' = "incr"
    /\ UNCHANGED <<args_count, args_output, dict_file, text_list, dirs_created,
                   scene_touched, scene, render_filepath, i, text_content,
                   variant_id, image_filename, label_filename, image_path,
                   label_path, generated_count, exc_at, log>>
    /\ UNCHANGED compvars

\* lines 190-193: generated_count += 1
Increment ==
    /\ pc = "incr"
    /\ generated_count' = generated_count + 1
    /\ iters' = SetLast("counted", TRUE)
    /\ pc' = "for"
    /\ UNCHANGED <<args_count, args_output, dict_file, text_list, dirs_created,
                   scene_touched, scene, render_filepath, i, text_content,
                   variant_id, image_filename, label_filename, image_path,
                   label_path, fs, exc_at, log>>
    /\ UNCHANGED compvars

----------------------------------------------------------------------------
(* main(): the except clauses and the end, lines 195-203 *)

Raised(kind) ==
    [kind |-> kind, pc |-> pc, i |-> i, fs |-> fs, gc |-> generated_count]

HandleKeyboardInterruptReraise ==
    /\ log' = log \cup {[level |-> "warning", line |-> 196, value |-> 0]}
    /\ pc' = "raised"

HandleKeyboardInterruptContinue ==
    /\ log' = log \cup {[level |-> "warning", line |-> 196, value |-> 0]}
    /\ pc' = "for"

\* lines 195-196: except KeyboardInterrupt: logger.warning(...)
HandleKeyboardInterrupt ==
    /\ log' = log \cup {[level |-> "warning", line |-> 196, value |-> 0]}
    /\ pc' = "report"

HandleExceptionSkip ==
    /\ log' = log \cup {[level |-> "error", line |-> 198, value |-> 0]}
    /\ pc' = "for"

\* lines 197-199: except Exception as e: logger.error(...); raise
HandleException ==
    /\ log' = log \cup {[level |-> "error", line |-> 198, value |-> 0]}
    /\ pc' = "raised"

\* a KeyboardInterrupt raised before the statement at pc, inside the try block
Interrupt ==
    /\ pc \in TryPcs
    /\ exc_at.kind = "none"
    /\ exc_at' = Raised("KeyboardInterrupt")
    /\ HandleKeyboardInterrupt
    /\ UNCHANGED <<args_count, args_output, dict_file, text_list, dirs_created,
                   scene_touched, scene, render_filepath, i, text_content,
                   variant_id, image_filename, label_filename, image_path,
                   label_path, generated_count, fs, iters>>
    /\ UNCHANGED compvars

\* line 158 with an empty text_list: random.choice raises IndexError
ChoiceEmpty ==
    /\ pc = "choice"
    /\ text_list = <<>>
    /\ exc_at' = Raised("Exception")
    /\ HandleException
    /\ UNCHANGED <<args_count, args_output, dict_file, text_list, dirs_created,
                   scene_touched, scene, render_filepath, i, text_content,
                   variant_id, image_filename, label_filename, image_path,
                   label_path, generated_count, fs, iters>>
    /\ UNCHANGED compvars

\* the statement at pc raises: a call into the host or the file system fails
RaiseException ==
    /\ pc \in RaisingPcs
    /\ exc_at.kind = "none"
    /\ exc_at' = Raised("Exception")
    /\ iters' = IF pc = "render" THEN SetLast("render", "RAISED") ELSE iters
    /\ HandleException
    /\ UNCHANGED <<args_count, args_output, dict_file, text_list, dirs_created,
                   scene_touched, scene, render_filepath, i, text_content,
                   variant_id, image_filename, label_filename, image_path,
                   label_path, generated_count, fs>>
    /\ UNCHANGED compvars

\* lines 201-203: logger.info(f"... Generated {generated_count} images")
Report ==
    /\ pc = "report"
    /\ log' = log \cup {[level |-> "info", line |-> 201, value |-> generated_count]}
    /\ pc' = "done"
    /\ UNCHANGED <<args_count, args_output, dict_file, text_list, dirs_created,
                   scene_touched, scene, render_filepath, i, text_content,
                   variant_id, image_filename, label_filename, image_path,
                   label_path, generated_count, fs, iters, exc_at>>
    /\ UNCHANGED compvars

----------------------------------------------------------------------------
(* Specifications *)

\* the statements main() runs by itself
Step ==
    \/ ValidateInput
    \/ LoadDictionary
    \/ CreateOutputDirs
    \/ SetupRender
    \/ ForNext
    \/ Choice
    \/ ChoiceEmpty
    \/ ClearScene
    \/ CreateCylinder
    \/ ApplyDebossedText
    \/ RandomizeScene
    \/ BuildPaths
    \/ Render
    \/ OpenLabel
    \/ WriteLabel
    \/ Increment
    \/ Report

Next ==
    \/ Step
    \/ Interrupt
    \/ RaiseException

Spec == Init /\ [][Next]_vars

\* main() is sequential: a statement that can run does run; interrupts and
\* failures of the host are not owed
FairSpec == Spec /\ WF_vars(Step)

\* the dictionary loader on every file of at most MaxFileLen characters
InitDict ==
    /\ args_count = 0
    /\ args_output = <<"o">>
    /\ dict_file \in {[exists |-> TRUE, content |-> c] :
                         c \in BoundedSeq(DictAlphabet, MaxFileLen)}
    /\ pc = "start"
    /\ InitCommon

NextDict ==
    \/ ValidateInput
    \/ LoadDictionary

SpecDict == InitDict /\ [][NextDict]_vars

\* load_text_dictionary called on any path: a missing file, a file with
\* bytes that are no UTF-8, a valid file
InitLoad ==
    /\ args_count = 0
    /\ args_output = <<"o">>
    /\ dict_file \in {NoFile} \cup
                     {[exists |-> TRUE, content |-> c] :
                         c \in BoundedSeq(DictAlphabet \cup {BadByte}, MaxFileLen)}
    /\ pc = "load"
    /\ InitCommon

NextLoad == LoadDictionary

SpecLoad == InitLoad /\ [][NextLoad]_vars

----------------------------------------------------------------------------
(* CylinderGenerator.create_cylinder (cylinder_generator.py)               *)
(*                                                                         *)
(* Lengths are integers in units of 0.001 Blender units: 2.0 is 2000.      *)

\* the components by themselves: main() is not running
MainIdle ==
    /\ args_count = 0
    /\ args_output = <<"o">>
    /\ dict_file = NoFile
    /\ pc = "idle"
    /\ InitMain

\* lines 32-37: self.cylinder_configs
cylinder_configs ==
    [small      |-> [height |-> 2000, radius |-> 600,  description |-> "Small Tank"],
     medium     |-> [height |-> 3000, radius |-> 800,  description |-> "Medium Tank"],
     large      |-> [height |-> 4000, radius |-> 1000, description |-> "Large Tank"],
     industrial |-> [height |-> 5000, radius |-> 1200, description |-> "Industrial Tank"]]

ConfigOfMedium(size_type) == cylinder_configs["medium"]

\* line 70: self.cylinder_configs.get(size_type, self.cylinder_configs['medium'])
ConfigOf(size_type) ==
    IF size_type \in DOMAIN cylinder_configs
    THEN cylinder_configs[size_type]
    ELSE cylinder_configs["medium"]

\* lines 73-74: "custom if custom else config[...]" tests the truth value of
\* the override: None and 0 are both false
Provided(custom) == custom # None /\ ValueOf(custom) # 0

Override(custom, table) == IF Provided(custom) THEN ValueOf(custom) ELSE table

CylinderObjectNamedByClass(size_type, height, radius) ==
    [name       |-> <<"GasCylinder_",
                      IF size_type \in DOMAIN cylinder_configs
                      THEN size_type ELSE "medium">>,
     dimensions |-> <<2 * radius, 2 * radius, height>>,
     location   |-> <<0, 0, height \div 2>>]

\* lines 79-87: the object the host adds for radius, depth=height,
\* location=(0, 0, height/2), and its name
CylinderObject(size_type, height, radius) ==
    [name       |-> <<"GasCylinder_", size_type>>,
     dimensions |-> <<2 * radius, 2 * radius, height>>,
     location   |-> <<0, 0, height \div 2>>]

\* the arguments of the calls that are explored
SizeTypeArgs == {None, Some("huge")} \cup {Some(k) : k \in DOMAIN cylinder_configs}

CustomHeights == {None, Some(0), Some(2500)}

CustomRadii == {None, Some(0), Some(700)}

InitCylinder ==
    /\ MainIdle
    /\ emb = NoCall
    /\ runs = <<>>
    /\ lit = NoCall
    /\ prog = NoCall
    /\ gui = NoCall
    /\ \E st \in SizeTypeArgs, ch \in CustomHeights, cr \in CustomRadii :
          cyl = [pc |-> "call", size_type |-> st, custom_height |-> ch,
                 custom_radius |-> cr]

\* lines 50-104: create_cylinder(size_type, custom_height, custom_radius)
create_cylinder ==
    /\ cyl.pc = "call"
    /\ \E size_type \in (IF cyl.size_type = None
                          THEN DOMAIN cylinder_configs
                          ELSE {ValueOf(cyl.size_type)}) :
          LET config == ConfigOf(size_type)
              height == Override(cyl.custom_height, config.height)
              radius == Override(cyl.custom_radius, config.radius)
          IN  cyl' = [pc            |-> "created",
                      size_type     |-> cyl.size_type,
                      custom_height |-> cyl.custom_height,
                      custom_radius |-> cyl.custom_radius,
                      selected      |-> size_type,
                      height        |-> height,
                      radius        |-> radius,
                      cylinder      |-> CylinderObject(size_type, height, radius)]
    /\ UNCHANGED <<args_count, args_output, dict_file, pc, text_list,
                   dirs_created, scene_touched, scene, render_filepath, i,
                   text_content, variant_id, image_filename, label_filename,
                   image_path, label_path, generated_count, fs, iters, exc_at,
                   log, emb, runs, lit, prog, gui>>

NextCylinder == create_cylinder

SpecCylinder == InitCylinder /\ [][NextCylinder]_vars

----------------------------------------------------------------------------
(* TextEmbosser (text_embosser.py)                                         *)
(*                                                                         *)
(* Lengths are in units of 0.001 Blender units, angles in units of 0.001   *)
(* radian.  A font file is the record of the directory under font_dir it   *)
(* lies in and of its extension.                                           *)

\* random.uniform(a, b) computes a + (b - a) * random() with random() in
\* [0.0, 1.0): a is drawn when random() is 0.0, and b can be the result of
\* the rounding.  The draws are taken on a grid of UniformSteps steps.
UniformSteps == 2

UniformFromZero(a, b) == {(b * n) \div UniformSteps : n \in 0..UniformSteps}

Uniform(a, b) == {a + ((b - a) * n) \div UniformSteps : n \in 0..UniformSteps}

\* lines 43-44
deboss_depth_range == <<1, 5>>

text_size_range == <<150, 250>>

\* line 56
font_extensions == {".ttf", ".otf", ".woff"}

FontDirs == <<"industrial", "monospace", "default">>

\* lines 59-74: the directory of the configured style, then all three
SearchPaths(font_style) ==
    (IF \E k \in DOMAIN FontDirs : FontDirs[k] = font_style
     THEN <<font_style>>
     ELSE <<>>) \o FontDirs

\* lines 78-81: glob(search_path/**/*ext) for the three extensions
Glob(disk, dir) == {f \in disk : f.dir = dir /\ f.ext \in font_extensions}

\* lines 48-88; list(set(fonts)) keeps each path once, in no fixed order
load_available_fonts(disk, font_style) ==
    UNION {Glob(disk, SearchPaths(font_style)[k]) :
              k \in DOMAIN SearchPaths(font_style)}

\* bpy.data.fonts.get('Bfont'): the font built into the host
Bfont == [dir |-> "bpy.data.fonts", ext |-> "Bfont"]

\* lines 167-178: None without fonts, else random.choice(available_fonts)
select_random_font(available_fonts) ==
    IF available_fonts = {} THEN {None} ELSE {Some(f) : f \in available_fonts}

FontAssignedKeepsNone(font_path, exists, load_ok) ==
    IF font_path # None /\ exists
    THEN IF load_ok THEN font_path ELSE None
    ELSE None

\* lines 145-158: the font that text_obj.data.font ends with
FontAssigned(font_path, exists, load_ok) ==
    IF font_path # None /\ exists
    THEN IF load_ok THEN font_path ELSE Some(Bfont)
    ELSE Some(Bfont)

MarginTenth(cylinder_height) == cylinder_height \div 10

\* line 200: margin = cylinder_height * 0.2
Margin(cylinder_height) == (cylinder_height * 2) \div 10

OffsetDistanceOnSurface(cylinder_radius) == cylinder_radius

\* line 207: offset_distance = cylinder_radius + 0.01
OffsetDistance(cylinder_radius) == cylinder_radius + 10

Max(a, b) == IF a >= b THEN a ELSE b

\* the font files that may lie under font_dir
FontFiles ==
    {[dir |-> "industrial", ext |-> ".ttf"],
     [dir |-> "monospace",  ext |-> ".otf"],
     [dir |-> "industrial", ext |-> ".txt"]}

FontStyles == {"industrial", "monospace", "default"}

\* the cylinders create_cylinder gives for two classes and for one pair of overrides
EmbossedCylinders ==
    {CylinderObject("small", 2000, 600),
     CylinderObject("industrial", 5000, 1200),
     CylinderObject("medium", 2500, 700)}

PositionHeights == {None, Some(100)}

InitEmboss ==
    /\ MainIdle
    /\ cyl = NoCall
    /\ runs = <<>>
    /\ lit = NoCall
    /\ prog = NoCall
    /\ gui = NoCall
    /\ \E style \in FontStyles, disk \in SUBSET FontFiles,
          cylinder \in EmbossedCylinders, ph \in PositionHeights :
          emb = [pc              |-> "new",
                 font_style      |-> style,
                 disk            |-> disk,
                 cylinder        |-> cylinder,
                 position_height |-> ph,
                 available_fonts |-> {},
                 font_path       |-> None,
                 path_exists     |-> FALSE,
                 load_raised     |-> FALSE,
                 font            |-> None,
                 size            |-> 0,
                 location        |-> <<0, 0, 0>>,
                 rotation        |-> <<0, 0, 0>>,
                 deboss_depth    |-> 0,
                 hide_viewport   |-> FALSE]

EmbUnchanged ==
    UNCHANGED <<args_count, args_output, dict_file, pc, text_list,
                dirs_created, scene_touched, scene, render_filepath, i,
                text_content, variant_id, image_filename, label_filename,
                image_path, label_path, generated_count, fs, iters, exc_at,
                log, cyl, runs, lit, prog, gui>>

\* lines 28-46: TextEmbosser(font_dir, font_style)
TextEmbosserInit ==
    /\ emb.pc = "new"
    /\ emb' = [emb EXCEPT
                  !.pc = "ready",
                  !.available_fonts = load_available_fonts(emb.disk, emb.font_style)]
    /\ EmbUnchanged

\* the file system is not the program's: a font file found at construction
\* can be gone when a later call selects it
RemoveFontFile ==
    /\ emb.pc = "ready"
    /\ \E f \in emb.disk : emb' = [emb EXCEPT !.disk = emb.disk \ {f}]
    /\ EmbUnchanged

\* lines 125-165: _create_text_object; bpy.data.fonts.load returns the font
\* or raises
create_text_object ==
    /\ emb.pc = "ready"
    /\ \E font_path \in select_random_font(emb.available_fonts),
          load_ok \in BOOLEAN,
          size \in Uniform(text_size_range[1], text_size_range[2]) :
          LET exists == font_path # None /\ ValueOf(font_path) \in emb.disk
          IN  /\ ~exists => load_ok
              /\ emb' = [emb EXCEPT
                            !.pc = "position",
                            !.font_path = font_path,
                            !.path_exists = exists,
                            !.load_raised = ~load_ok,
                            !.font = FontAssigned(font_path, exists, load_ok),
                            !.size = size]
    /\ EmbUnchanged

\* lines 180-221: _position_text_on_cylinder; azimuth_angle is drawn at
\* line 204 and is a local that nothing reads
position_text_on_cylinder ==
    /\ emb.pc = "position"
    /\ LET cylinder_radius == Max(emb.cylinder.dimensions[1],
                                  emb.cylinder.dimensions[2]) \div 2
           cylinder_height == emb.cylinder.dimensions[3]
           margin == Margin(cylinder_height)
       IN  \E position_height \in
                 (IF emb.position_height = None
                  THEN Uniform(margin, cylinder_height - margin)
                  ELSE {ValueOf(emb.position_height)}),
              azimuth_angle \in Uniform(0, 6283),
              side \in {1, -1} :
              LET x == OffsetDistance(cylinder_radius) * side
              IN  emb' = [emb EXCEPT
                            !.pc = "convert",
                            !.location = <<x, 0, position_height>>,
                            !.rotation = IF x > 0 THEN <<0, 0, 0>>
                                                  ELSE <<0, 0, 3142>>]
    /\ EmbUnchanged

\* lines 223-255: _convert_text_to_mesh
convert_text_to_mesh ==
    /\ emb.pc = "convert"
    /\ \E deboss_depth \in Uniform(deboss_depth_range[1], deboss_depth_range[2]) :
          emb' = [emb EXCEPT !.pc = "boolean", !.deboss_depth = deboss_depth]
    /\ EmbUnchanged

\* lines 257-282 and 120-123: _apply_boolean_deboss, then the return
apply_boolean_deboss ==
    /\ emb.pc = "boolean"
    /\ emb' = [emb EXCEPT !.pc = "done", !.hide_viewport = TRUE]
    /\ EmbUnchanged

NextEmboss ==
    \/ TextEmbosserInit
    \/ RemoveFontFile
    \/ create_text_object
    \/ position_text_on_cylinder
    \/ convert_text_to_mesh
    \/ apply_boolean_deboss

SpecEmboss == InitEmboss /\ [][NextEmboss]_vars

----------------------------------------------------------------------------
(* The random stream of a run                                              *)
(*                                                                         *)
(* Every draw of the program is taken from the one generator of Python's   *)
(* random module.  The generator is a deterministic function of its state; *)
(* it is modelled by a full-period generator of 4-bit words.  The module   *)
(* seeds itself from the operating system when it is imported;             *)
(* random.seed(s) replaces that state by a function of s.                  *)

NextWord(state) == (5 * state + 3) % 16

\* random.seed(s)
Seeded(s) == s % 16

SeedRngSkipped(seed, state) == state

\* main.py lines 122-123: "if args.seed is not None: random.seed(args.seed)"
SeedRng(seed, state) == IF seed # None THEN Seeded(ValueOf(seed)) ELSE state

\* getrandbits(k): the k high bits of the next word
GetRandBits(k, word) == word \div (2 ^ (4 - k))

\* n.bit_length()
BitLength(n) ==
    IF n = 0 THEN 0 ELSE IF n < 2 THEN 1 ELSE IF n < 4 THEN 2 ELSE IF n < 8 THEN 3 ELSE 4

\* _randbelow(n): draws words until the k high bits are below n
RECURSIVE RandBelow(_, _)
RandBelow(n, state) ==
    LET word == NextWord(state)
        r == GetRandBits(BitLength(n), word)
    IN  IF r < n THEN [value |-> r, state |-> word] ELSE RandBelow(n, word)

\* random.choice(seq) is seq[_randbelow(len(seq))]
RandomChoice(seq, state) ==
    LET d == RandBelow(Len(seq), state)
    IN  [value |-> seq[d.value + 1], state |-> d.state]

\* random.uniform(a, b) calls random() once, which takes two words
AfterUniform(state) == NextWord(NextWord(state))

RECURSIVE AfterUniforms(_, _)
AfterUniforms(k, state) ==
    IF k = 0 THEN state ELSE AfterUniforms(k - 1, AfterUniform(state))

\* cylinder_generator.py line 68: random.choice over the four size classes
AfterCreateCylinder(state) ==
    RandBelow(Cardinality(DOMAIN cylinder_configs), state).state

\* text_embosser.py: the draws of apply_debossed_text in the order of the
\* code: the font (line 178, only when fonts were discovered), the size
\* (161), the height (201), the azimuth (204), the side (209), the depth (246)
AfterApplyDebossedText(fonts, state) ==
    LET s1 == IF fonts = 0 THEN state ELSE RandBelow(fonts, state).state
        s2 == AfterUniforms(3, s1)
        s3 == RandBelow(Len(<<1, -1>>), s2).state
    IN  AfterUniform(s3)

\* lighting_camera.py: the uniform draws of randomize_scene: the camera
\* (lines 74, 75, 76, 90), the key light (143, 147, 148, 163), the fill
\* light (185, 187, 190, 191, 193) and the rim light (225, 231, 232, 234)
AfterRandomizeScene(state) ==
    AfterUniforms(4, AfterUniforms(5, AfterUniforms(4, AfterUniforms(4, state))))

Runs == {1, 2}

Seeds == {None, Some(0), Some(1), Some(2)}

\* the states the generator can be in after the import of random
ImportStates == {6, 11}

\* the dictionaries of the two runs, as loaded
SeedDictionaries ==
    {load_text_dictionary(FileTwo), load_text_dictionary(FileSlash \o <<"\n", "B">>)}

\* how many fonts a TextEmbosser can discover
FontCounts == {Cardinality(load_available_fonts(d, "industrial")) : d \in SUBSET FontFiles}

\* two runs with the same seed, the same dictionary and the same count;
\* the font directory and the state left by the import belong to each run
InitSeed ==
    /\ MainIdle
    /\ cyl = NoCall
    /\ emb = NoCall
    /\ lit = NoCall
    /\ prog = NoCall
    /\ gui = NoCall
    /\ \E seed \in Seeds, tl \in SeedDictionaries, n \in 1..MaxCount,
          fonts \in [Runs -> FontCounts], imported \in [Runs -> ImportStates] :
          runs = [r \in Runs |->
                     [pc        |-> "seed",
                      seed      |-> seed,
                      text_list |-> tl,
                      count     |-> n,
                      fonts     |-> fonts[r],
                      rng       |-> imported[r],
                      i         |-> -1,
                      labels    |-> <<>>,
                      filenames |-> <<>>]]

RunsUnchanged ==
    UNCHANGED <<args_count, args_output, dict_file, pc, text_list,
                dirs_created, scene_touched, scene, render_filepath, i,
                text_content, variant_id, image_filename, label_filename,
                image_path, label_path, generated_count, fs, iters, exc_at,
                log, cyl, emb, lit, prog, gui>>

\* main.py lines 121-124
RunSeed(r) ==
    /\ runs[r].pc = "seed"
    /\ runs' = [runs EXCEPT ![r].pc = "for",
                            ![r].rng = SeedRng(runs[r].seed, runs[r].rng)]
    /\ RunsUnchanged

\* line 156
RunFor(r) ==
    /\ runs[r].pc = "for"
    /\ runs' = IF LoopContinues(runs[r].i, runs[r].count)
               THEN [runs EXCEPT ![r].pc = "choice", ![r].i = runs[r].i + 1]
               ELSE [runs EXCEPT ![r].pc = "done"]
    /\ RunsUnchanged

\* lines 158-159 and 177: the label of the iteration and its image filename
RunChoice(r) ==
    /\ runs[r].pc = "choice"
    /\ LET d == RandomChoice(runs[r].text_list, runs[r].rng)
       IN  runs' = [runs EXCEPT
                      ![r].pc = "cylinder",
                      ![r].rng = d.state,
                      ![r].labels = Append(runs[r].labels, d.value),
                      ![r].filenames =
                          Append(runs[r].filenames,
                                 ImageFilename(d.value, VariantId(runs[r].i)))]
    /\ RunsUnchanged

\* line 168
RunCreateCylinder(r) ==
    /\ runs[r].pc = "cylinder"
    /\ runs' = [runs EXCEPT ![r].pc = "deboss",
                            ![r].rng = AfterCreateCylinder(runs[r].rng)]
    /\ RunsUnchanged

\* line 171
RunApplyDebossedText(r) ==
    /\ runs[r].pc = "deboss"
    /\ runs' = [runs EXCEPT ![r].pc = "randomize",
                            ![r].rng = AfterApplyDebossedText(runs[r].fonts, runs[r].rng)]
    /\ RunsUnchanged

\* lines 174-190: randomize_scene; the render and the label file draw nothing
RunRandomizeScene(r) ==
    /\ runs[r].pc = "randomize"
    /\ runs' = [runs EXCEPT ![r].pc = "for",
                            ![r].rng = AfterRandomizeScene(runs[r].rng)]
    /\ RunsUnchanged

NextSeed ==
    \/ \E r \in Runs : RunSeed(r)
    \/ \E r \in Runs : RunFor(r)
    \/ \E r \in Runs : RunChoice(r)
    \/ \E r \in Runs : RunCreateCylinder(r)
    \/ \E r \in Runs : RunApplyDebossedText(r)
    \/ \E r \in Runs : RunRandomizeScene(r)

SpecSeed == InitSeed /\ [][NextSeed]_vars

----------------------------------------------------------------------------
(* utils.calculate_progress_percentage                                     *)
(*                                                                         *)
(* A percentage is an integer in units of 0.001 percent: 100.0 is 100000.  *)

MinOf(a, b) == IF a <= b THEN a ELSE b

\* utils.py lines 130-133
calculate_progress_percentage(current, total) ==
    IF total <= 0 THEN 0 ELSE MinOf(100000, (current * 100000) \div total)

\* the integers the function is called with
ProgressArgs == -4..7

InitProgress ==
    /\ MainIdle
    /\ cyl = NoCall
    /\ emb = NoCall
    /\ runs = <<>>
    /\ lit = NoCall
    /\ gui = NoCall
    /\ \E current \in ProgressArgs, total \in ProgressArgs :
          prog = [pc |-> "call", current |-> current, total |-> total]

CallProgress ==
    /\ prog.pc = "call"
    /\ prog' = [pc      |-> "returned",
                current |-> prog.current,
                total   |-> prog.total,
                result  |-> calculate_progress_percentage(prog.current, prog.total)]
    /\ UNCHANGED <<args_count, args_output, dict_file, pc, text_list,
                   dirs_created, scene_touched, scene, render_filepath, i,
                   text_content, variant_id, image_filename, label_filename,
                   image_path, label_path, generated_count, fs, iters, exc_at,
                   log, cyl, emb, runs, lit, gui>>

NextProgress == CallProgress

SpecProgress == InitProgress /\ [][NextProgress]_vars

----------------------------------------------------------------------------
(* LightingCameraController (lighting_camera.py)                           *)
(*                                                                         *)
(* Lengths are in units of 0.001 Blender units, angles in degrees, light   *)
(* energies in watts, colour factors and light sizes in thousandths.  The  *)
(* scene holds cameras [id, name, location, direction] and lights          *)
(* [id, light_type, name, azimuth]; the azimuth of a light is the azimuth  *)
(* its location was computed from.  lit.camera is bpy.context.scene.camera *)
(* (0: no camera).  lit.drawn is the value the last statement drew.        *)

ElevationRangeHalfCircle == <<-90, 90>>

\* lines 32-34 and 37-39
camera_distance_range == <<3000, 6000>>

camera_elevation_range == <<-30, 30>>

camera_azimuth_range == <<0, 360>>

key_light_intensity_range == <<300, 800>>

fill_light_intensity_range == <<150, 400>>

rim_light_intensity_range == <<200, 600>>

\* math.sin of an angle in degrees, times 1000 (Bhaskara's approximation,
\* exact at 0, 30, 90, 150 and 180 degrees)
Sin1000(deg) ==
    LET x == deg % 360
        h == IF x <= 180 THEN x ELSE x - 180
        v == (4000 * h * (180 - h)) \div (40500 - h * (180 - h))
    IN  IF x <= 180 THEN v ELSE -v

Cos1000(deg) == Sin1000(deg + 90)

\* a quotient rounded toward zero
Trunc(p, q) == IF p >= 0 THEN p \div q ELSE -((-p) \div q)

\* a length times two factors in thousandths
Scaled(a, b, c) == Trunc(Trunc(a * b, 1000) * c, 1000)

\* lines 79-81: the camera position in spherical coordinates around (0, 0, 1.5)
CameraLocation(distance, elevation, azimuth) ==
    <<Scaled(distance, Cos1000(elevation), Cos1000(azimuth)),
      Scaled(distance, Cos1000(elevation), Sin1000(azimuth)),
      Scaled(distance, Sin1000(elevation), 1000) + 1500>>

\* line 86: target_location = Vector((0, 0, 1.5))
CameraTarget == <<0, 0, 1500>>

DirectionFromOrigin(target, location) == target

\* line 263: direction = target - camera.location; the rotation set at
\* lines 266-267 makes the camera look along direction
DirectionTo(target, location) ==
    <<target[1] - location[1], target[2] - location[2], target[3] - location[3]>>

\* bpy.ops.object.camera_add(): a camera at the origin, looking down
NewCamera(id) ==
    [id |-> id, name |-> "SceneCamera", location |-> <<0, 0, 0>>,
     direction |-> <<0, 0, -1>>]

\* bpy.ops.object.light_add(type=...)
NewLight(id, light_type, name) ==
    [id |-> id, light_type |-> light_type, name |-> name, azimuth |-> 0]

RemoveNoLights(lights) == lights

KeepingCamera(cameras, id) == cameras

\* line 63: bpy.data.objects.remove(bpy.context.scene.camera, do_unlink=True)
WithoutCamera(cameras, id) == {c \in cameras : c.id # id}

\* lines 123-127: every object of type LIGHT is removed
ClearExistingLights(lights) == {}

NoDraw == [what |-> "none", value |-> 0]

NoLocals == [distance |-> 0, elevation |-> 0, azimuth |-> 0, light |-> 0]

\* what the scene can hold before the first call
OldCamera(id, name) ==
    [id |-> id, name |-> name, location |-> <<7000, -7000, 5000>>,
     direction |-> <<0, 0, -1>>]

InitialScenes ==
    {[cameras |-> {}, camera |-> 0, lights |-> {}],
     [cameras |-> {OldCamera(1, "Camera")}, camera |-> 1,
      lights |-> {[id |-> 2, light_type |-> "POINT", name |-> "Light", azimuth |-> 45]}],
     [cameras |-> {OldCamera(1, "Camera"), OldCamera(2, "SceneCamera")}, camera |-> 2,
      lights |-> {[id |-> 3, light_type |-> "SUN", name |-> "KeyLight", azimuth |-> 10],
                  [id |-> 4, light_type |-> "AREA", name |-> "FillLight", azimuth |-> 200],
                  [id |-> 5, light_type |-> "SPOT", name |-> "RimLight", azimuth |-> 300],
                  [id |-> 6, light_type |-> "AREA", name |-> "AmbientLight", azimuth |-> 0],
                  [id |-> 7, light_type |-> "AREA", name |-> "Softbox", azimuth |-> 90]}]}

\* the calls a client makes, in order
CallPlans ==
    {<<"setup_camera">>, <<"setup_lighting">>, <<"randomize_scene">>,
     <<"setup_camera", "setup_camera">>, <<"setup_lighting", "setup_lighting">>,
     <<"randomize_scene", "randomize_scene">>,
     <<"setup_lighting", "setup_camera", "setup_lighting">>}

InitLight ==
    /\ MainIdle
    /\ cyl = NoCall
    /\ emb = NoCall
    /\ runs = <<>>
    /\ prog = NoCall
    /\ gui = NoCall
    /\ \E sc \in InitialScenes, plan \in CallPlans :
          lit = [pc        |-> "idle",
                 plan      |-> plan,
                 completed |-> <<>>,
                 cameras   |-> sc.cameras,
                 camera    |-> sc.camera,
                 lights    |-> sc.lights,
                 world     |-> "none",
                 next_id   |-> 8,
                 made      |-> 0,
                 removed   |-> {},
                 locals    |-> NoLocals,
                 drawn     |-> NoDraw]

LitUnchanged ==
    UNCHANGED <<args_count, args_output, dict_file, pc, text_list,
                dirs_created, scene_touched, scene, render_filepath, i,
                text_content, variant_id, image_filename, label_filename,
                image_path, label_path, generated_count, fs, iters, exc_at,
                log, cyl, emb, runs, prog, gui>>

\* the client calls the next method of its plan; randomize_scene (lines
\* 43-51) starts with setup_camera
StartCall ==
    /\ lit.pc = "idle"
    /\ lit.plan # <<>>
    /\ lit' = [lit EXCEPT
                  !.pc = IF Head(lit.plan) = "setup_lighting"
                         THEN "lights_clear" ELSE "cam_remove"]
    /\ LitUnchanged

\* lines 62-63: the active camera, if any, is removed from the scene
RemoveExistingCamera ==
    /\ lit.pc = "cam_remove"
    /\ lit' = [lit EXCEPT
                  !.pc = "cam_add",
                  !.cameras = WithoutCamera(lit.cameras, lit.camera),
                  !.removed = IF lit.camera # 0 THEN {lit.camera} ELSE {},
                  !.camera = 0]
    /\ LitUnchanged

\* lines 66-71: camera_add, the name, scene.camera = camera
CameraAdd ==
    /\ lit.pc = "cam_add"
    /\ lit' = [lit EXCEPT
                  !.pc = "cam_distance",
                  !.cameras = lit.cameras \cup {NewCamera(lit.next_id)},
                  !.camera = lit.next_id,
                  !.made = lit.next_id,
                  !.next_id = lit.next_id + 1]
    /\ LitUnchanged

\* line 74
DrawCameraDistance ==
    /\ lit.pc = "cam_distance"
    /\ \E v \in Uniform(camera_distance_range[1], camera_distance_range[2]) :
          lit' = [lit EXCEPT !.pc = "cam_elevation",
                             !.locals.distance = v,
                             !.drawn = [what |-> "camera_distance", value |-> v]]
    /\ LitUnchanged

\* line 75
DrawCameraElevation ==
    /\ lit.pc = "cam_elevation"
    /\ \E v \in Uniform(camera_elevation_range[1], camera_elevation_range[2]) :
          lit' = [lit EXCEPT !.pc = "cam_azimuth",
                             !.locals.elevation = v,
                             !.drawn = [what |-> "camera_elevation", value |-> v]]
    /\ LitUnchanged

\* line 76
DrawCameraAzimuth ==
    /\ lit.pc = "cam_azimuth"
    /\ \E v \in Uniform(camera_azimuth_range[1], camera_azimuth_range[2]) :
          lit' = [lit EXCEPT !.pc = "cam_locate",
                             !.locals.azimuth = v,
                             !.drawn = [what |-> "camera_azimuth", value |-> v]]
    /\ LitUnchanged

\* lines 79-83: camera.location = (x, y, z)
SetCameraLocation ==
    /\ lit.pc = "cam_locate"
    /\ lit' = [lit EXCEPT
                  !.pc = "cam_point",
                  !.cameras = {IF c.id = lit.made
                               THEN [c EXCEPT !.location =
                                        CameraLocation(lit.locals.distance,
                                                       lit.locals.elevation,
                                                       lit.locals.azimuth)]
                               ELSE c : c \in lit.cameras},
                  !.drawn = NoDraw]
    /\ LitUnchanged

\* lines 86-87 and 252-267: _point_camera_at_target(camera, target_location)
PointCameraAtTarget ==
    /\ lit.pc = "cam_point"
    /\ lit' = [lit EXCEPT
                  !.pc = "cam_lens",
                  !.cameras = {IF c.id = lit.made
                               THEN [c EXCEPT !.direction =
                                        DirectionTo(CameraTarget, c.location)]
                               ELSE c : c \in lit.cameras}]
    /\ LitUnchanged

\* a method returns: randomize_scene goes on with setup_lighting after
\* setup_camera, any other call is over
Returned(state, method) ==
    IF method = "setup_camera" /\ Head(state.plan) = "randomize_scene"
    THEN [state EXCEPT !.pc = "lights_clear", !.locals = NoLocals]
    ELSE [state EXCEPT !.pc = "idle",
                       !.locals = NoLocals,
                       !.completed = Append(state.completed, Head(state.plan)),
                       !.plan = Tail(state.plan)]

\* lines 90-97: the focal length, the sensor width, return camera
DrawCameraLens ==
    /\ lit.pc = "cam_lens"
    /\ \E v \in Uniform(35, 85) :
          lit' = Returned([lit EXCEPT !.drawn = [what |-> "camera_lens", value |-> v]],
                          "setup_camera")
    /\ LitUnchanged

\* lines 105 and 120-127: _clear_existing_lights
ClearLights ==
    /\ lit.pc = "lights_clear"
    /\ lit' = [lit EXCEPT !.pc = "environment",
                          !.lights = ClearExistingLights(lit.lights),
                          !.drawn = NoDraw]
    /\ LitUnchanged

\* lines 108 and 329-392: _setup_environment_lighting
SetupEnvironmentLighting ==
    /\ lit.pc = "environment"
    /\ lit' = [lit EXCEPT !.pc = "key_add", !.world = "gradient"]
    /\ LitUnchanged

\* bpy.ops.object.light_add and the energy drawn for the light
LightAdded(state, next, light_type, name, what, v) ==
    [state EXCEPT
        !.pc = next,
        !.lights = state.lights \cup {NewLight(state.next_id, light_type, name)},
        !.locals.light = state.next_id,
        !.next_id = state.next_id + 1,
        !.drawn = [what |-> what, value |-> v]]

\* a value drawn by random.uniform
Drawn(state, next, what, v) ==
    [state EXCEPT !.pc = next, !.drawn = [what |-> what, value |-> v]]

\* the light's location is computed from the azimuth drawn before
Located(state) ==
    [state EXCEPT !.lights = {IF l.id = state.locals.light
                              THEN [l EXCEPT !.azimuth = state.locals.azimuth]
                              ELSE l : l \in state.lights}]

\* lines 137-144
KeyLightAdd ==
    /\ lit.pc = "key_add"
    /\ \E v \in Uniform(key_light_intensity_range[1], key_light_intensity_range[2]) :
          lit' = LightAdded(lit, "key_elevation", "SUN", "KeyLight", "key_intensity", v)
    /\ LitUnchanged

\* line 147
KeyLightElevation ==
    /\ lit.pc = "key_elevation"
    /\ \E v \in Uniform(30, 70) : lit' = Drawn(lit, "key_azimuth", "key_elevation", v)
    /\ LitUnchanged

\* lines 148-160: the azimuth from 0 to 360 degrees, the location, the
\* orientation
KeyLightAzimuth ==
    /\ lit.pc = "key_azimuth"
    /\ \E v \in Uniform(0, 360) :
          lit' = Located([Drawn(lit, "key_color", "key_azimuth", v)
                             EXCEPT !.locals.azimuth = v])
    /\ LitUnchanged

\* lines 163-164
KeyLightColor ==
    /\ lit.pc = "key_color"
    /\ \E v \in Uniform(800, 1200) : lit' = Drawn(lit, "fill_add", "key_color_temp", v)
    /\ LitUnchanged

\* lines 179-186
FillLightAdd ==
    /\ lit.pc = "fill_add"
    /\ \E v \in Uniform(fill_light_intensity_range[1], fill_light_intensity_range[2]) :
          lit' = LightAdded(lit, "fill_size", "AREA", "FillLight", "fill_intensity", v)
    /\ LitUnchanged

\* line 187
FillLightSize ==
    /\ lit.pc = "fill_size"
    /\ \E v \in Uniform(2000, 4000) : lit' = Drawn(lit, "fill_elevation", "fill_size", v)
    /\ LitUnchanged

\* line 190
FillLightElevation ==
    /\ lit.pc = "fill_elevation"
    /\ \E v \in Uniform(10, 40) : lit' = Drawn(lit, "fill_azimuth", "fill_elevation", v)
    /\ LitUnchanged

\* line 191: the azimuth of the fill light is drawn from 120 to 240 degrees,
\* whatever the azimuth of the key light
FillLightAzimuth ==
    /\ lit.pc = "fill_azimuth"
    /\ \E v \in Uniform(120, 240) :
          lit' = [Drawn(lit, "fill_distance", "fill_azimuth", v)
                     EXCEPT !.locals.azimuth = v]
    /\ LitUnchanged

\* lines 193-205: the distance, the location, the orientation, the colour
FillLightDistance ==
    /\ lit.pc = "fill_distance"
    /\ \E v \in Uniform(4000, 7000) :
          lit' = Located(Drawn(lit, "rim_add", "fill_distance", v))
    /\ LitUnchanged

\* lines 219-228
RimLightAdd ==
    /\ lit.pc = "rim_add"
    /\ \E v \in Uniform(rim_light_intensity_range[1], rim_light_intensity_range[2]) :
          lit' = LightAdded(lit, "rim_elevation", "SPOT", "RimLight", "rim_intensity", v)
    /\ LitUnchanged

\* line 231
RimLightElevation ==
    /\ lit.pc = "rim_elevation"
    /\ \E v \in Uniform(45, 80) : lit' = Drawn(lit, "rim_azimuth", "rim_elevation", v)
    /\ LitUnchanged

\* line 232
RimLightAzimuth ==
    /\ lit.pc = "rim_azimuth"
    /\ \E v \in Uniform(180, 360) :
          lit' = [Drawn(lit, "rim_distance", "rim_azimuth", v)
                     EXCEPT !.locals.azimuth = v]
    /\ LitUnchanged

\* lines 234-246
RimLightDistance ==
    /\ lit.pc = "rim_distance"
    /\ \E v \in Uniform(3000, 5000) :
          lit' = Located(Drawn(lit, "ambient", "rim_distance", v))
    /\ LitUnchanged

\* lines 395-421 and 116-118: _create_ambient_light draws nothing; return
AmbientLightAdd ==
    /\ lit.pc = "ambient"
    /\ lit' = Returned([lit EXCEPT
                           !.lights = lit.lights \cup
                               {NewLight(lit.next_id, "AREA", "AmbientLight")},
                           !.next_id = lit.next_id + 1,
                           !.drawn = NoDraw],
                       "setup_lighting")
    /\ LitUnchanged

NextLight ==
    \/ StartCall
    \/ RemoveExistingCamera
    \/ CameraAdd
    \/ DrawCameraDistance
    \/ DrawCameraElevation
    \/ DrawCameraAzimuth
    \/ SetCameraLocation
    \/ PointCameraAtTarget
    \/ DrawCameraLens
    \/ ClearLights
    \/ SetupEnvironmentLighting
    \/ KeyLightAdd
    \/ KeyLightElevation
    \/ KeyLightAzimuth
    \/ KeyLightColor
    \/ FillLightAdd
    \/ FillLightSize
    \/ FillLightElevation
    \/ FillLightAzimuth
    \/ FillLightDistance
    \/ RimLightAdd
    \/ RimLightElevation
    \/ RimLightAzimuth
    \/ RimLightDistance
    \/ AmbientLightAdd

SpecLight == InitLight /\ [][NextLight]_vars

----------------------------------------------------------------------------
(* LightingGUI (lighting_gui.py)                                           *)
(*                                                                         *)
(* gui.files is the set of temporary script files on disk, gui.temp_script *)
(* the file of the running generate_test call (0: none created),           *)
(* gui.last the handler that returned last.  The status texts are those of *)
(* the source without their leading symbol; an error status carries the    *)
(* first 30 characters of the exception's message.                         *)

MaxTests == 2

StatusReady == "Ready"

StatusGenerating == "Generating test image..."

StatusSuccess == "Test image generated successfully!"

StatusFailed == "Generation failed"

StatusTimedOut == "Generation timed out"

StatusReset == "Reset to defaults"

\* line 354 with str(e) of the FileNotFoundError subprocess.Popen raises when
\* no blender executable is on the PATH
StatusErrorNoBlender == "Error: [Errno 2] No such file or dire..."

\* line 354 with str(e) of the FileNotFoundError tempfile raises when no
\* temporary directory is usable
StatusErrorNoTempDir == "Error: [Errno 2] No usable temporary ..."

\* what the host can answer to NamedTemporaryFile, Popen and communicate
TempFileOutcomes == {"created", "raises"}

PopenOutcomes == {"started", "raises"}

CommunicateOutcomes == {"saved", "no_marker", "nonzero", "timeout"}

InitGui ==
    /\ MainIdle
    /\ cyl = NoCall
    /\ emb = NoCall
    /\ runs = <<>>
    /\ lit = NoCall
    /\ prog = NoCall
    /\ gui = [pc          |-> "idle",
              status      |-> StatusReady,
              key_light   |-> FALSE,
              fill_light  |-> FALSE,
              rim_light   |-> FALSE,
              files       |-> {},
              temp_script |-> 0,
              tests       |-> 0,
              last        |-> "none"]

GuiUnchanged ==
    UNCHANGED <<args_count, args_output, dict_file, pc, text_list,
                dirs_created, scene_touched, scene, render_filepath, i,
                text_content, variant_id, image_filename, label_filename,
                image_path, label_path, generated_count, fs, iters, exc_at,
                log, cyl, emb, runs, lit, prog>>

\* line 45: the Key Light check button
ToggleKeyLight ==
    /\ gui.pc = "idle"
    /\ gui' = [gui EXCEPT !.key_light = ~gui.key_light, !.last = "toggle"]
    /\ GuiUnchanged

\* line 50: the Fill Light check button
ToggleFillLight ==
    /\ gui.pc = "idle"
    /\ gui' = [gui EXCEPT !.fill_light = ~gui.fill_light, !.last = "toggle"]
    /\ GuiUnchanged

\* line 55: the Rim Light check button
ToggleRimLight ==
    /\ gui.pc = "idle"
    /\ gui' = [gui EXCEPT !.rim_light = ~gui.rim_light, !.last = "toggle"]
    /\ GuiUnchanged

\* lines 359-368
reset_defaults ==
    /\ gui.pc = "idle"
    /\ gui' = [gui EXCEPT !.key_light = FALSE,
                          !.fill_light = FALSE,
                          !.rim_light = FALSE,
                          !.status = StatusReset,
                          !.last = "reset_defaults"]
    /\ GuiUnchanged

\* lines 146-149: the button starts generate_test
GenerateTestStart ==
    /\ gui.pc = "idle"
    /\ gui.tests < MaxTests
    /\ gui' = [gui EXCEPT !.pc = "write_temp",
                          !.status = StatusGenerating,
                          !.temp_script = 0,
                          !.tests = gui.tests + 1]
    /\ GuiUnchanged

\* the handler of lines 353-357, then the return of generate_test
ExceptException(state, status) ==
    [state EXCEPT !.pc = "idle", !.status = status, !.last = "generate_test"]

RemoveTempScript(files, temp_script) == files \ {temp_script}

\* lines 151-329: the script text, then the temporary file written with
\* delete=False
WriteTempScript ==
    /\ gui.pc = "write_temp"
    /\ \E outcome \in TempFileOutcomes :
          gui' = IF outcome = "created"
                 THEN [gui EXCEPT !.pc = "popen",
                                  !.files = gui.files \cup {gui.tests},
                                  !.temp_script = gui.tests]
                 ELSE ExceptException(gui, StatusErrorNoTempDir)
    /\ GuiUnchanged

\* lines 332-335: subprocess.Popen(['blender', ...]); when it raises, control
\* goes to line 353 and no statement there removes the file
StartBlender ==
    /\ gui.pc = "popen"
    /\ \E outcome \in PopenOutcomes :
          gui' = IF outcome = "started"
                 THEN [gui EXCEPT !.pc = "communicate"]
                 ELSE ExceptException(gui, StatusErrorNoBlender)
    /\ GuiUnchanged

\* lines 336-352: communicate(timeout=30); os.unlink(temp_script) at line 340
\* or, after a timeout, at line 352
Communicate ==
    /\ gui.pc = "communicate"
    /\ \E outcome \in CommunicateOutcomes :
          gui' = [gui EXCEPT
                     !.pc = "idle",
                     !.files = RemoveTempScript(gui.files, gui.temp_script),
                     !.status = CASE outcome = "saved" -> StatusSuccess
                                  [] outcome = "timeout" -> StatusTimedOut
                                  [] OTHER -> StatusFailed,
                     !.last = "generate_test"]
    /\ GuiUnchanged

NextGui ==
    \/ ToggleKeyLight
    \/ ToggleFillLight
    \/ ToggleRimLight
    \/ reset_defaults
    \/ GenerateTestStart
    \/ WriteTempScript
    \/ StartBlender
    \/ Communicate

SpecGui == InitGui /\ [][NextGui]_vars

----------------------------------------------------------------------------
(* Helpers of the properties *)

Iterations == 1..Len(iters)

IsPrefix(p, t) == Len(p) <= Len(t) /\ SubSeq(t, 1, Len(p)) = p

FileAt(path) == {f \in fs : f.path = path}

\* iterations whose render wrote an image and whose label file was written
Completed == {k \in Iterations : iters[k].render = "FINISHED" /\ iters[k].label_written}

Counted == {k \in Iterations : iters[k].counted}

LabelWritten == {k \in Iterations : iters[k].label_written}

Interrupted == exc_at.kind = "KeyboardInterrupt"

Failed == exc_at.kind = "Exception"

\* no exception, no interrupt, and no render call that reported a failure
NoErrorRun ==
    /\ exc_at.kind = "none"
    /\ \A k \in Iterations : iters[k].render \in {"none", "FINISHED"}

ReportedCounts == {l.value : l \in {m \in log : m.level = "info" /\ m.line = 201}}

----------------------------------------------------------------------------
(* Properties *)

\* C1: label integrity.  For every iteration that wrote its label file, the
\* file at the iteration's label path holds exactly the label drawn in that
\* iteration, that same string was passed to apply_debossed_text, and both
\* file names begin with that string followed by "_".
C1_LabelIntegrity ==
    \A k \in LabelWritten :
        /\ \E f \in FileAt(iters[k].label_path) :
              f.kind = "label" /\ f.content = iters[k].label
        /\ iters[k].debossed = iters[k].label
        /\ IsPrefix(iters[k].label \o Underscore, iters[k].image_filename)
        /\ IsPrefix(iters[k].label \o Underscore, iters[k].label_filename)

\* a run in which a label ending in "_002" and then a plain label were written
C1_Witness ==
    /\ Len(iters) = 2
    /\ iters[1].label = LabelA2
    /\ iters[2].label = LabelA
    /\ iters[1].label_written
    /\ iters[2].label_written

\* C2: a batch run with count = N >= 0 and a non-empty dictionary in which no
\* error or interrupt occurs ends (main returns) with exactly N image files,
\* exactly N label files and generated_count = N; and every run ends.
C2_BatchProducesN ==
    /\ [](( /\ pc = "done"
            /\ NoErrorRun
            /\ args_count >= 0
            /\ text_list # <<>> )
          => /\ Cardinality(FilesOfKind(fs, "image")) = args_count
             /\ Cardinality(FilesOfKind(fs, "label")) = args_count
             /\ generated_count = args_count
             /\ ReportedCounts = {args_count})
    /\ <>(pc \in Terminal)

\* a full run of three iterations that drew the same label more than once
C2_Witness ==
    /\ pc = "done"
    /\ NoErrorRun
    /\ args_count = 3
    /\ generated_count = 3
    /\ iters[1].label = iters[3].label

\* the number a string of decimal digits denotes
RECURSIVE DecValue(_)
DecValue(d) ==
    IF d = <<>> THEN 0
    ELSE 10 * DecValue(SubSeq(d, 1, Len(d) - 1))
         + (CHOOSE v \in 0..9 : Digits[v + 1] = d[Len(d)])

\* NNN is k zero-padded to at least 3 digits
IsPadded(nnn, k) ==
    /\ Len(nnn) >= 3
    /\ \A j \in 1..Len(nnn) : \E v \in 0..9 : Digits[v + 1] = nnn[j]
    /\ DecValue(nnn) = k
    /\ Len(nnn) > 3 => nnn[1] # "0"

\* <dir>/<name>, whether or not <dir> is given with its trailing "/"
Under(dir, name) ==
    (IF dir[Len(dir)] = "/" THEN dir ELSE dir \o <<"/">>) \o name

\* C3: output naming.  The k-th iteration writes its image to
\* <output>/images/<label>_<NNN>.png and its label to
\* <output>/labels/<label>_<NNN>.txt, NNN being k zero-padded to at least 3
\* digits: the counter starts at 001 and grows by 1 per iteration.
C3_OutputNaming ==
    \A k \in Iterations :
        LET nnn == iters[k].variant_id
        IN  /\ IsPadded(nnn, k)
            /\ iters[k].image_path # NoStr =>
                  /\ iters[k].image_path =
                        Under(Under(args_output, StrImages),
                              iters[k].label \o Underscore \o nnn \o ExtPng)
                  /\ iters[k].label_path =
                        Under(Under(args_output, StrLabels),
                              iters[k].label \o Underscore \o nnn \o ExtTxt)
            /\ iters[k].render = "FINISHED" =>
                  \E f \in FileAt(iters[k].image_path) : f.kind = "image"
            /\ iters[k].label_written =>
                  \E f \in FileAt(iters[k].label_path) : f.kind = "label"

\* C4: no file name collision within a run.  Two distinct iterations never
\* have the same image path or the same label path, whatever labels were
\* drawn, so every file an iteration wrote is still that iteration's file.
C4_NoCollision ==
    /\ \A j, k \in Iterations :
          (j # k /\ iters[j].image_path # NoStr /\ iters[k].image_path # NoStr) =>
              /\ iters[j].image_path # iters[k].image_path
              /\ iters[j].label_path # iters[k].label_path
    /\ \A k \in Iterations :
          /\ iters[k].render = "FINISHED" =>
                \E f \in FileAt(iters[k].image_path) : f.kind = "image" /\ f.it = k
          /\ iters[k].label_written =>
                \E f \in FileAt(iters[k].label_path) : f.kind = "label" /\ f.it = k

\* the same label drawn twice, and a label ending in "_002" next to the
\* plain label of iteration 2
C4_Witness ==
    /\ Len(iters) = 3
    /\ iters[1].label = LabelA2
    /\ iters[2].label = LabelA
    /\ iters[3].label = LabelA
    /\ iters[3].label_written
    /\ Cardinality(FilesOfKind(fs, "image")) = 3

InFlight(at) == at.pc \in TryPcs \ {"for", "choice"}

C7_ExceptionAborts ==
    Failed =>
        /\ pc = "raised"
        /\ \E l \in log : l.level = "error" /\ l.line = 198
        /\ ReportedCounts = {}
        /\ fs = exc_at.fs
        /\ i = exc_at.i
        /\ generated_count = exc_at.gc
        /\ Len(iters) <= exc_at.i + 1
        /\ \A k \in Iterations : k = exc_at.i + 1 => ~iters[k].counted

\* the render of the second iteration raised; the first iteration's files stay
C7_Witness ==
    /\ Failed
    /\ exc_at.pc = "render"
    /\ exc_at.i = 1
    /\ Cardinality(fs) = 2
    /\ args_count = 3

\* C8: when the renderer reports a failure for an iteration's render call,
\* that iteration's label file is not written and the batch aborts with the
\* failure propagated and no further iteration.
C8_RenderFailureAborts ==
    \A k \in Iterations :
        iters[k].render \in {"CANCELLED", "RAISED"} =>
            /\ ~iters[k].label_written
            /\ \A f \in fs : f.kind = "label" => f.it # k
            /\ Len(iters) = k
            /\ pc \in Terminal => pc = "raised"

\* C9: when the dictionary path does not exist main() stops with exit
\* status 1 before any work: no output directory is created, no scene
\* operation is performed and no file is written.
C9_MissingDictionary ==
    ~dict_file.exists =>
        /\ pc \in {"start", "exit1"}
        /\ pc = "exit1" => \E l \in log : l.level = "error" /\ l.line = 128
        /\ ~dirs_created
        /\ ~scene_touched
        /\ scene = {}
        /\ fs = {}
        /\ iters = <<>>

C9_Witness ==
    /\ ~dict_file.exists
    /\ pc = "exit1"
    /\ args_count = 3

\* the lines of a file by position: a line starts at 1 or after a "\n" and
\* runs to the next "\n" or to the end of the file
LineStarts(c) == {p \in 1..Len(c) : p = 1 \/ c[p - 1] = "\n"}

LineEnd(c, p) ==
    LET ends == {q \in p..Len(c) : c[q] = "\n" \/ q = Len(c)}
    IN  CHOOSE q \in ends : \A r \in ends : q <= r

\* the positions of a line that hold no whitespace
Inked(c, p) == {q \in p..LineEnd(c, p) : c[q] \notin Whitespace}

Lowest(S) == CHOOSE x \in S : \A y \in S : x <= y

Highest(S) == CHOOSE x \in S : \A y \in S : x >= y

\* the starts of the lines that are not blank
NonBlankStarts(c) == {p \in LineStarts(c) : Inked(c, p) # {}}

\* C10: for every dictionary file load_text_dictionary returns its lines
\* with leading and trailing whitespace trimmed and the blank lines dropped,
\* in file order and with duplicates kept; every element is non-empty and
\* neither begins nor ends with whitespace; a file of blank lines only
\* gives the empty sequence.
C10_LoadDictionary ==
    pc = "mkdirs" =>
        LET c == dict_file.content
            kept == NonBlankStarts(c)
        IN  /\ Len(text_list) = Cardinality(kept)
            /\ \A p \in kept :
                  text_list[Cardinality({q \in kept : q <= p})] =
                      SubSeq(c, Lowest(Inked(c, p)), Highest(Inked(c, p)))
            /\ \A n \in 1..Len(text_list) :
                  /\ text_list[n] # <<>>
                  /\ text_list[n][1] \notin Whitespace
                  /\ text_list[n][Len(text_list[n])] \notin Whitespace
            /\ (\A q \in 1..Len(c) : c[q] \in Whitespace) => text_list = <<>>

\* a file with a blank line between two equal labels
C10_Witness ==
    /\ pc = "mkdirs"
    /\ dict_file.content = <<"A", "\n", "\n", "A">>
    /\ text_list = <<LabelA, LabelA>>

----------------------------------------------------------------------------
(* C11: load_text_dictionary fails with a not-found error when the path   *)
(* does not exist and with UnicodeDecodeError when the file is not valid   *)
(* UTF-8; in both cases no label list is returned.                         *)

Loaded == pc # "load"

C11_LoadFailures ==
    Loaded =>
        /\ ~dict_file.exists =>
               /\ pc = "raised"
               /\ exc_at.kind = "FileNotFoundError"
               /\ text_list = <<>>
        /\ (dict_file.exists /\ ~IsValidUtf8(dict_file.content)) =>
               /\ pc = "raised"
               /\ exc_at.kind = "UnicodeDecodeError"
               /\ text_list = <<>>

\* what does hold: both calls fail and return no list, the second one with
\* TypeError
C11_LoadFails ==
    (Loaded /\ (~dict_file.exists \/ ~IsValidUtf8(dict_file.content))) =>
        /\ pc = "raised"
        /\ exc_at.kind \in {"FileNotFoundError", "TypeError"}
        /\ text_list = <<>>

----------------------------------------------------------------------------
(* C12: when the loaded label set is empty and count >= 1, main() stops    *)
(* before the output directories are created, before the scene is cleared  *)
(* and before any file is written.                                         *)

EmptyLabelSet ==
    /\ pc \notin {"start", "load"}
    /\ LoadRaises(dict_file) = "none"
    /\ text_list = <<>>

C12_EmptyDictionaryRejected ==
    (EmptyLabelSet /\ args_count >= 1) =>
        /\ ~dirs_created
        /\ ~scene_touched
        /\ scene = {}
        /\ fs = {}

\* what does hold: the run ends at the first random.choice with the
\* IndexError re-raised, after the directories and the render settings were
\* made and before the scene is cleared or a file is written
C12_EmptyDictionaryFails ==
    (EmptyLabelSet /\ args_count >= 1) =>
        /\ pc = "raised" => (dirs_created /\ scene_touched /\ Failed /\ exc_at.pc = "choice")
        /\ pc \in {"report", "done"} => Interrupted
        /\ scene = {}
        /\ fs = {}
        /\ iters = <<>>
        /\ generated_count = 0

----------------------------------------------------------------------------
(* C17: create_cylinder with size_type omitted selects one of the four     *)
(* size classes small, medium, large, industrial; with no override the     *)
(* height and the radius are the table pair of the selected class:         *)
(* (2.0, 0.6), (3.0, 0.8), (4.0, 1.0) or (5.0, 1.2).                       *)

TablePairs == {<<2000, 600>>, <<3000, 800>>, <<4000, 1000>>, <<5000, 1200>>}

PairOf(class) ==
    CASE class = "small"      -> <<2000, 600>>
      [] class = "medium"     -> <<3000, 800>>
      [] class = "large"      -> <<4000, 1000>>
      [] class = "industrial" -> <<5000, 1200>>

Created == cyl.pc = "created"

C17_SizeClassPair ==
    (Created /\ cyl.size_type = None) =>
        /\ cyl.selected \in {"small", "medium", "large", "industrial"}
        /\ (cyl.custom_height = None /\ cyl.custom_radius = None) =>
               /\ <<cyl.height, cyl.radius>> = PairOf(cyl.selected)
               /\ <<cyl.height, cyl.radius>> \in TablePairs
               /\ cyl.cylinder.dimensions = <<2 * cyl.radius, 2 * cyl.radius, cyl.height>>

C17_Witness ==
    /\ Created
    /\ cyl.size_type = None
    /\ cyl.custom_height = None
    /\ cyl.custom_radius = None
    /\ cyl.selected = "industrial"
    /\ cyl.height = 5000

----------------------------------------------------------------------------
(* C18: whenever custom_height is provided (any value other than None,     *)
(* including 0) it replaces the table height, and whenever custom_radius   *)
(* is provided it replaces the table radius, each independently of the     *)
(* other and of the size class.                                            *)

C18_OverridesReplace ==
    Created =>
        /\ cyl.custom_height # None => cyl.height = ValueOf(cyl.custom_height)
        /\ cyl.custom_radius # None => cyl.radius = ValueOf(cyl.custom_radius)

\* what does hold: an override other than None and 0 replaces the table
\* value; None and 0 leave the table value of the class in place
C18_TruthyOverridesReplace ==
    Created =>
        /\ cyl.height = IF cyl.custom_height \in {None, Some(0)}
                        THEN ConfigOf(cyl.selected).height
                        ELSE ValueOf(cyl.custom_height)
        /\ cyl.radius = IF cyl.custom_radius \in {None, Some(0)}
                        THEN ConfigOf(cyl.selected).radius
                        ELSE ValueOf(cyl.custom_radius)

----------------------------------------------------------------------------
(* The text embosser: helpers of the properties *)

\* _create_text_object has returned
TextCreated == emb.pc \in {"position", "convert", "boolean", "done"}

\* _position_text_on_cylinder has returned
Positioned == emb.pc \in {"convert", "boolean", "done"}

\* _convert_text_to_mesh has returned
Converted == emb.pc \in {"boolean", "done"}

HeightOf(cylinder) == cylinder.dimensions[3]

RadiusOf(cylinder) == cylinder.dimensions[1] \div 2

\* C13: for every cylinder of height h > 0, with no explicit
\* position_height, the text height chosen by _position_text_on_cylinder
\* lies strictly inside the open interval (0.2*h, 0.8*h); the endpoints are
\* never chosen.
C13_HeightStrictlyInside ==
    (Positioned /\ emb.position_height = None) =>
        /\ HeightOf(emb.cylinder) > 0
        /\ 10 * emb.location[3] > 2 * HeightOf(emb.cylinder)
        /\ 10 * emb.location[3] < 8 * HeightOf(emb.cylinder)

\* C13 as amended: the text height lies in the closed interval
\* [0.2*h, 0.8*h]; the endpoints can be chosen.
C13_HeightInClosedBand ==
    (Positioned /\ emb.position_height = None) =>
        /\ HeightOf(emb.cylinder) > 0
        /\ 10 * emb.location[3] >= 2 * HeightOf(emb.cylinder)
        /\ 10 * emb.location[3] <= 8 * HeightOf(emb.cylinder)

\* random() gave 0.0: the text sits at 0.2*h exactly
C13_Witness ==
    /\ Positioned
    /\ emb.position_height = None
    /\ HeightOf(emb.cylinder) = 5000
    /\ emb.location[3] = 1000

\* C14: every text placement is at x = +(radius + 0.01) or
\* x = -(radius + 0.01) with y = 0, whatever azimuth_angle was drawn.
C14_TwoSides ==
    Positioned =>
        /\ emb.location[1] \in {RadiusOf(emb.cylinder) + 10,
                                 -(RadiusOf(emb.cylinder) + 10)}
        /\ emb.location[2] = 0

C14_Witness ==
    /\ Positioned
    /\ RadiusOf(emb.cylinder) = 700
    /\ emb.location[1] = -710
    /\ emb.location[2] = 0

\* C15: in every call of apply_debossed_text the deboss depth lies in the
\* closed interval 0.001 to 0.005 and the text size in the closed interval
\* 0.15 to 0.25.
C15_DepthAndSizeInRange ==
    /\ TextCreated => (emb.size >= 150 /\ emb.size <= 250)
    /\ Converted => (emb.deboss_depth >= 1 /\ emb.deboss_depth <= 5)

\* a call that used the largest size and the smallest depth
C15_Witness ==
    /\ emb.pc = "done"
    /\ emb.size = 250
    /\ emb.deboss_depth = 1

\* C19: whenever at least one font file is discovered under the directory
\* of the configured style, every font chosen by _select_random_font is a
\* font of that style.
C19_ConfiguredStyleOnly ==
    (TextCreated /\ \E f \in emb.available_fonts : f.dir = emb.font_style) =>
        /\ emb.font_path # None
        /\ ValueOf(emb.font_path).dir = emb.font_style

\* what does hold: the font chosen is any of the fonts discovered under the
\* three style directories
C19_AnyDiscoveredFont ==
    (TextCreated /\ emb.available_fonts # {}) =>
        /\ emb.font_path # None
        /\ ValueOf(emb.font_path) \in emb.available_fonts
        /\ ValueOf(emb.font_path).ext \in font_extensions

\* C20: _create_text_object always ends with a font assigned and raises
\* nothing; when no font was discovered, when the selected font path no
\* longer exists and when loading the selected font raises, the built-in
\* font is the one assigned.
C20_FontNeverFails ==
    /\ emb.pc = "ready" => ENABLED create_text_object
    /\ TextCreated =>
          /\ emb.font # None
          /\ emb.available_fonts = {} => emb.font = Some(Bfont)
          /\ (emb.font_path # None /\ ~emb.path_exists) => emb.font = Some(Bfont)
          /\ (emb.path_exists /\ emb.load_raised) => emb.font = Some(Bfont)
          /\ (emb.path_exists /\ ~emb.load_raised) => emb.font = emb.font_path

\* the font selected was removed after the embosser had found it
C20_Witness ==
    /\ TextCreated
    /\ emb.font_path # None
    /\ ~emb.path_exists
    /\ emb.font = Some(Bfont)

\* loading the selected font raised
C20_WitnessLoadRaised ==
    /\ TextCreated
    /\ emb.path_exists
    /\ emb.load_raised
    /\ emb.font = Some(Bfont)

\* no font was discovered
C20_WitnessNoFonts ==
    /\ TextCreated
    /\ emb.available_fonts = {}
    /\ emb.font = Some(Bfont)

----------------------------------------------------------------------------
(* C16: two runs of main() with the same seed, the same dictionary and the *)
(* same count choose the same sequence of labels, and so write the same    *)
(* sequence of output filenames, although the other random draws are       *)
(* interleaved on the same stream between the label draws.                 *)

Shorter(a, b) == IF Len(a) <= Len(b) THEN Len(a) ELSE Len(b)

\* as far as both runs have come they chose the same labels and filenames
SameChoices ==
    /\ \A k \in 1..Shorter(runs[1].labels, runs[2].labels) :
          runs[1].labels[k] = runs[2].labels[k]
    /\ \A k \in 1..Shorter(runs[1].filenames, runs[2].filenames) :
          runs[1].filenames[k] = runs[2].filenames[k]

\* the runs were given a seed; seed, dictionary and count are the same by InitSeed
SameSeed ==
    /\ runs[1].seed # None
    /\ runs[1].seed = runs[2].seed
    /\ runs[1].text_list = runs[2].text_list
    /\ runs[1].count = runs[2].count

C16_SameLabels == SameSeed => SameChoices

\* C16 as amended: the two runs must also discover the same number of
\* font files, since the font draw is only made when fonts were found.
C16_SameLabelsSameFonts ==
    (SameSeed /\ runs[1].fonts = runs[2].fonts) => SameChoices

\* two finished runs of three iterations that started from different
\* generator states, drew fonts in between and chose the same labels, not
\* all of them equal
C16_Witness ==
    /\ SameSeed
    /\ runs[1].fonts = runs[2].fonts
    /\ runs[1].fonts > 0
    /\ \A r \in Runs : runs[r].pc = "done" /\ Len(runs[r].labels) = MaxCount
    /\ runs[1].labels = runs[2].labels
    /\ \E k \in 2..MaxCount : runs[1].labels[k] # runs[1].labels[1]

----------------------------------------------------------------------------
(* C25: every iteration clears the scene before building, so at each       *)
(* render the scene holds only objects created in the current iteration:   *)
(* one cylinder carrying the current label's text, one camera and the      *)
(* light rig, and nothing left over from an earlier iteration.             *)

SceneOfIteration(it, text) ==
    {Obj("cylinder", it, text, FALSE), Obj("camera", it, NoStr, FALSE)}
    \cup {Obj(k, it, NoStr, FALSE) : k \in {"key", "fill", "rim", "ambient"}}

----------------------------------------------------------------------------
(* C26: within an iteration the steps run in the order clear, build,       *)
(* deboss, randomize, render, write label, and iteration i+1 starts only   *)
(* after the label of iteration i is written; so in every reachable state  *)
(* every label file has an image file of the same iteration, and the       *)
(* number of images exceeds generated_count by at most 1.                  *)

Images == FilesOfKind(fs, "image")

Labels == FilesOfKind(fs, "label")

C26_StrictStepOrdering ==
    /\ \A l \in Labels : \E m \in Images : m.it = l.it
    /\ Cardinality(Images) <= generated_count + 1

\* what does hold: the steps of an iteration run in order, one iteration at
\* a time, and the images exceed generated_count by at most 1; a label has
\* an image of its iteration whenever that render reported FINISHED
C26_StepOrdering ==
    /\ \A k \in Iterations :
          /\ k < Len(iters) => iters[k].counted
          /\ iters[k].counted => iters[k].label_written
          /\ iters[k].label_written => iters[k].render \in {"FINISHED", "CANCELLED"}
          /\ iters[k].render # "none" => iters[k].debossed = iters[k].label
    /\ \A l \in Labels :
          iters[l.it].render = "FINISHED" => \E m \in Images : m.it = l.it
    /\ Cardinality(Images) <= generated_count + 1

----------------------------------------------------------------------------
(* C28: create_cylinder called with a size_type that is none of the four   *)
(* table keys does not fail: it builds the cylinder with the dimensions of *)
(* the medium class (height 3.0, radius 0.8) unless overridden, and the    *)
(* object is named after the given size_type.                              *)

UnknownSizeType ==
    /\ cyl.size_type # None
    /\ ValueOf(cyl.size_type) \notin {"small", "medium", "large", "industrial"}

C28_UnknownSizeTypeIsMedium ==
    /\ (cyl.pc = "call" /\ UnknownSizeType) => ENABLED create_cylinder
    /\ (Created /\ UnknownSizeType) =>
          /\ cyl.custom_height = None => cyl.height = 3000
          /\ cyl.custom_radius = None => cyl.radius = 800
          /\ cyl.custom_height \notin {None, Some(0)} =>
                 cyl.height = ValueOf(cyl.custom_height)
          /\ cyl.custom_radius \notin {None, Some(0)} =>
                 cyl.radius = ValueOf(cyl.custom_radius)
          /\ cyl.cylinder.name = <<"GasCylinder_", ValueOf(cyl.size_type)>>
          /\ cyl.cylinder.dimensions = <<2 * cyl.radius, 2 * cyl.radius, cyl.height>>

C28_Witness ==
    /\ Created
    /\ cyl.size_type = Some("huge")
    /\ cyl.custom_height = None
    /\ cyl.custom_radius = None
    /\ cyl.cylinder.name = <<"GasCylinder_", "huge">>
    /\ cyl.cylinder.dimensions = <<1600, 1600, 3000>>

----------------------------------------------------------------------------
(* C27: calculate_progress_percentage returns a value between 0.0 and      *)
(* 100.0 inclusive for every pair of integers (current, total), including  *)
(* total <= 0, current > total and current < 0.                            *)

C27_ProgressInRange ==
    prog.pc = "returned" => (prog.result >= 0 /\ prog.result <= 100000)

\* what does hold: the result never exceeds 100.0, is 0.0 for total <= 0,
\* and is not below 0.0 unless current is negative
C27_ProgressAtMostHundred ==
    prog.pc = "returned" =>
        /\ prog.result <= 100000
        /\ prog.total <= 0 => prog.result = 0
        /\ prog.current >= 0 => prog.result >= 0
        /\ (prog.total > 0 /\ prog.current > prog.total) => prog.result = 100000

----------------------------------------------------------------------------
(* The light rig and the camera *)

LightingCalls == {"setup_lighting", "randomize_scene"}

LightingPcs ==
    {"lights_clear", "environment", "key_add", "key_elevation", "key_azimuth",
     "key_color", "fill_add", "fill_size", "fill_elevation", "fill_azimuth",
     "fill_distance", "rim_add", "rim_elevation", "rim_azimuth", "rim_distance",
     "ambient"}

\* a call of setup_lighting has returned and none is running
RigBuilt ==
    /\ lit.pc \notin {"none"} \cup LightingPcs
    /\ \E k \in DOMAIN lit.completed : lit.completed[k] \in LightingCalls

LightsNamed(name) == {l \in lit.lights : l.name = name}

\* C21: in every scene made by setup_lighting the azimuth of the fill light
\* minus the azimuth of the key light, modulo 360 degrees, is between 90 and
\* 270 degrees.
C21_FillOppositeKey ==
    RigBuilt =>
        \A k \in LightsNamed("KeyLight"), f \in LightsNamed("FillLight") :
            LET diff == (f.azimuth - k.azimuth) % 360
            IN  diff >= 90 /\ diff <= 270

\* what the code does ensure: the fill light's own azimuth is between 120 and
\* 240 degrees
C21_FillInOwnRange ==
    RigBuilt =>
        \A f \in LightsNamed("FillLight") : f.azimuth >= 120 /\ f.azimuth <= 240

RigKinds ==
    {<<"SUN", "KeyLight">>, <<"AREA", "FillLight">>, <<"SPOT", "RimLight">>,
     <<"AREA", "AmbientLight">>}

\* C22: after any number of calls of setup_lighting or randomize_scene, from
\* any lights already in the scene, the scene holds exactly four lights: the
\* SUN key light, the AREA fill light, the SPOT rim light and the AREA
\* ambient light.
C22_FixedRig ==
    RigBuilt =>
        /\ Cardinality(lit.lights) = 4
        /\ {<<l.light_type, l.name>> : l \in lit.lights} = RigKinds

\* the second of two setup_lighting calls has returned in the scene that
\* started with five lights
C22_Witness ==
    /\ lit.pc = "idle"
    /\ lit.completed = <<"setup_lighting", "setup_lighting">>
    /\ Cardinality(lit.cameras) = 2
    /\ Cardinality(lit.lights) = 4
    /\ \A l \in lit.lights : l.id >= 12

InRange(v, range) == v >= range[1] /\ v <= range[2]

\* C23: every value randomize_scene draws is in its closed range: camera
\* distance 3.0 to 6.0, camera elevation -30 to 30, camera azimuth 0 to 360,
\* focal length 35 to 85, key intensity 300 to 800, fill intensity 150 to
\* 400, rim intensity 200 to 600.
C23_DrawsInRange ==
    /\ lit.pc # "none" =>
        /\ lit.drawn.what = "camera_distance" => InRange(lit.drawn.value, <<3000, 6000>>)
        /\ lit.drawn.what = "camera_elevation" => InRange(lit.drawn.value, <<-30, 30>>)
        /\ lit.drawn.what = "camera_azimuth" => InRange(lit.drawn.value, <<0, 360>>)
        /\ lit.drawn.what = "camera_lens" => InRange(lit.drawn.value, <<35, 85>>)
        /\ lit.drawn.what = "key_intensity" => InRange(lit.drawn.value, <<300, 800>>)
        /\ lit.drawn.what = "fill_intensity" => InRange(lit.drawn.value, <<150, 400>>)
        /\ lit.drawn.what = "rim_intensity" => InRange(lit.drawn.value, <<200, 600>>)

\* randomize_scene draws the lowest camera elevation
C23_Witness ==
    /\ lit.pc = "cam_azimuth"
    /\ Head(lit.plan) = "randomize_scene"
    /\ lit.drawn = [what |-> "camera_elevation", value |-> -30]

\* the camera of the latest setup_camera call has been oriented
CameraPointed ==
    /\ lit.pc \notin {"none", "cam_remove", "cam_add", "cam_distance",
                      "cam_elevation", "cam_azimuth", "cam_locate", "cam_point"}
    /\ lit.made # 0

ActiveCameras == {c \in lit.cameras : c.id = lit.camera}

\* the vector from a position to the point (0, 0, 1.5)
TowardTarget(location) == <<0 - location[1], 0 - location[2], 1500 - location[3]>>

\* C24: once setup_camera has oriented the camera, and until the next call,
\* the camera looks from its position toward the target (0, 0, 1.5).
C24_LooksAtTarget ==
    CameraPointed =>
        \A c \in ActiveCameras : c.direction = TowardTarget(c.location)

\* setup_camera has returned with the camera away from the origin and below
\* the target
C24_Witness ==
    /\ lit.pc = "idle"
    /\ lit.completed = <<"setup_camera">>
    /\ \E c \in ActiveCameras :
          /\ c.location[3] < 1500
          /\ c.location[1] # 0
          /\ c.direction = TowardTarget(c.location)
          /\ c.direction[3] > 0

\* setup_camera has created its camera and made it the scene camera
CameraCreated ==
    /\ lit.pc \notin {"none", "cam_remove", "cam_add"}
    /\ lit.made # 0

\* C29: after any number of setup_camera calls the scene camera is the one
\* camera the latest call created, and the camera that was active before
\* that call is no longer in the scene.
C29_OneActiveCamera ==
    CameraCreated =>
        /\ lit.camera = lit.made
        /\ Cardinality(ActiveCameras) = 1
        /\ \A c \in lit.cameras : c.id \notin lit.removed

\* the second setup_camera call has removed the camera of the first
C29_Witness ==
    /\ lit.pc = "idle"
    /\ lit.completed = <<"setup_camera", "setup_camera">>
    /\ lit.removed = {8}
    /\ lit.camera = 9
    /\ Cardinality(lit.cameras) = 2


----------------------------------------------------------------------------
(* The test image of the GUI *)

GenerateTestReturned == gui.pc = "idle" /\ gui.last = "generate_test"

FinalStatuses ==
    {StatusSuccess, StatusFailed, StatusTimedOut, StatusErrorNoBlender,
     StatusErrorNoTempDir}

\* C30: when generate_test has returned, on any path, the temporary script
\* file it created is deleted and the status is one of success, failed,
\* timed out or error, not "Generating test image...".
C30_CleansUpAndReports ==
    GenerateTestReturned =>
        /\ gui.temp_script \notin gui.files
        /\ gui.status \in FinalStatuses

\* the part that holds on every path: the status is final
C30_FinalStatus == GenerateTestReturned => gui.status \in FinalStatuses

\* the part that holds when no exception reached the outer handler: the file
\* is deleted
C30_DeletedUnlessError ==
    (GenerateTestReturned /\ gui.status \in {StatusSuccess, StatusFailed, StatusTimedOut})
        => gui.temp_script \notin gui.files


====
